---- MODULE Spec2Model ----
(***************************************************************************)
(* Longform Script Builder (src/app/longform_gui.py): the text engine      *)
(* (tokenizer, keyword extractor, signal detectors, reference analyzer,    *)
(* idea generator, script assembler) and the Tk shell App that drives it.  *)
(*                                                                         *)
(* A Python str is modelled as the sequence of its Unicode code points, so *)
(* that character classes, lower-casing, slicing and the code-point order  *)
(* used by sorted() are computed as Python computes them.  The alphabet of *)
(* the model is ASCII plus the Hangul syllables; a float is modelled as an *)
(* exact rational [n, d].                                                  *)
(***************************************************************************)
EXTENDS Integers, Sequences, FiniteSets, TLC

VARIABLES
    var_views,       \* App.var_views      (StringVar, entry text)
    var_likes,       \* App.var_likes
    var_seconds,     \* App.var_seconds
    var_title,       \* App.var_title
    var_thumb,       \* App.var_thumb
    txt_script,      \* App.txt_script     (ScrolledText contents)
    var_chapters,    \* App.var_chapters
    cbo_speaker,     \* App.cbo_speaker
    cbo_style,       \* App.cbo_style
    txt_analysis,    \* App.txt_analysis
    tree,            \* App.tree           (rows of the Treeview, iid i-1 at position i)
    focus,           \* App.tree.focus()   (iid of the focus row, <<>> for "")
    ideas,           \* App._ideas
    selected_idea,   \* App._selected_idea (None or an idea)
    txt_final,       \* App.txt_final
    page,            \* selected Notebook tab
    msgbox,          \* the messagebox shown by the last handler
    calls,           \* engine functions called by the last handler, in order
    pc,              \* position of the pure-function harness
    arg,             \* arguments the harness draws
    ret              \* value the function under check returned

vars == << var_views, var_likes, var_seconds, var_title, var_thumb, txt_script,
           var_chapters, cbo_speaker, cbo_style, txt_analysis, tree, focus, ideas,
           selected_idea, txt_final, page, msgbox, calls, pc, arg, ret >>

appvars == << var_views, var_likes, var_seconds, var_title, var_thumb, txt_script,
              var_chapters, cbo_speaker, cbo_style, txt_analysis, tree, focus, ideas,
              selected_idea, txt_final, page, msgbox, calls >>

fnvars == << pc, arg, ret >>

----------------------------------------------------------------------------
(* Python str: code points *)

CodeChars ==
       " !#$%&'()*+,-./0123456789:;<=>?@ABCDEFGHIJKLMNOPQRSTUVWXYZ"
    \o "[]^_abcdefghijklmnopqrstuvwxyz{|}~"

\* ord(c) of the characters of CodeChars: printable ASCII without the quote, backslash and backtick
CodePoints == SelectSeq([i \in 1..95 |-> i + 31], LAMBDA n : n \notin {34, 92, 96})

Code == [c \in {SubSeq(CodeChars, i, i) : i \in 1..Len(CodeChars)} |->
            CodePoints[CHOOSE i \in 1..Len(CodeChars) : SubSeq(CodeChars, i, i) = c]]

\* the str value of an ASCII literal
Str(s) == [i \in 1..Len(s) |-> Code[SubSeq(s, i, i)]]

Min(a, b) == IF a <= b THEN a ELSE b
Max(a, b) == IF a >= b THEN a ELSE b

\* str.isspace(), the whitespace of split()/strip() and of the regex class \s
IsSpace(c) == c \in (9..13) \cup (28..32) \cup {133, 160, 5760} \cup (8192..8202)
                    \cup {8232, 8233, 8239, 8287, 12288}

\* regex \d and [0-9] (the model's alphabet has no other decimal digit)
IsDigit(c) == c \in 48..57

\* [A-Za-z]
IsAlpha(c) == c \in (65..90) \cup (97..122)

\* [가-힣]
IsHangul(c) == c \in 44032..55203

\* regex \w on the model's alphabet
IsWord(c) == IsDigit(c) \/ IsAlpha(c) \/ IsHangul(c) \/ c = 95

\* str.lower() on the model's alphabet
Lower(s) == [i \in 1..Len(s) |-> IF s[i] \in 65..90 THEN s[i] + 32 ELSE s[i]]

RECURSIVE LStrip(_)
LStrip(s) == IF s # <<>> /\ IsSpace(Head(s)) THEN LStrip(Tail(s)) ELSE s

RECURSIVE RStrip(_)
RStrip(s) == IF s # <<>> /\ IsSpace(s[Len(s)]) THEN RStrip(SubSeq(s, 1, Len(s) - 1)) ELSE s

\* str.strip()
Strip(s) == RStrip(LStrip(s))

\* s[:k]
Slice(s, k) == IF k >= 0 THEN SubSeq(s, 1, Min(k, Len(s)))
                         ELSE SubSeq(s, 1, Max(0, Len(s) + k))

\* sub in s
In(sub, s) ==
    \/ sub = <<>>
    \/ \E i \in 1..(Len(s) - Len(sub) + 1) :
           s[i] = sub[1] /\ SubSeq(s, i, i + Len(sub) - 1) = sub

\* any(kw in s for kw in kws)
AnyIn(kws, s) == \E j \in 1..Len(kws) : In(kws[j], s)

\* sep.join(parts)
RECURSIVE Join(_, _)
Join(sep, parts) ==
    IF parts = <<>> THEN <<>>
    ELSE IF Len(parts) = 1 THEN parts[1]
    ELSE parts[1] \o sep \o Join(sep, Tail(parts))

\* s.replace(a, b) for a single character a
ReplaceChar(s, a, b) == [i \in 1..Len(s) |-> IF s[i] = a THEN b ELSE s[i]]

\* str.split(): the maximal runs of non-whitespace, in order
RECURSIVE SplitWs(_)
SplitWs(s) ==
    LET t == LStrip(s) IN
    IF t = <<>> THEN <<>>
    ELSE LET n == IF \E i \in 1..Len(t) : IsSpace(t[i])
                  THEN (CHOOSE i \in 1..Len(t) :
                            IsSpace(t[i]) /\ \A j \in 1..(i - 1) : ~IsSpace(t[j])) - 1
                  ELSE Len(t)
         IN << SubSeq(t, 1, n) >> \o SplitWs(SubSeq(t, n + 1, Len(t)))

\* s.split(sep) for a single character sep
RECURSIVE SplitOn(_, _)
SplitOn(s, sep) ==
    IF \E i \in 1..Len(s) : s[i] = sep
    THEN LET i == CHOOSE i \in 1..Len(s) : s[i] = sep /\ \A j \in 1..(i - 1) : s[j] # sep
         IN << SubSeq(s, 1, i - 1) >> \o SplitOn(SubSeq(s, i + 1, Len(s)), sep)
    ELSE << s >>

\* a < b on str: lexicographic by code point
RECURSIVE LexLess(_, _)
LexLess(a, b) ==
    IF b = <<>> THEN FALSE
    ELSE IF a = <<>> THEN TRUE
    ELSE IF Head(a) # Head(b) THEN Head(a) < Head(b)
    ELSE LexLess(Tail(a), Tail(b))

Range(s) == {s[i] : i \in 1..Len(s)}

----------------------------------------------------------------------------
(* Helpers *)

KOREAN_STOPWORDS ==
    { <<44536, 47532, 44256>>, <<44536, 47084, 45208>>, <<54616, 51648, 47564>>, <<46608, 54620>>, <<44536, 47000, 49436>>, <<54616, 51648, 47564>>,  \* "그리고" "그러나" "하지만" "또한" "그래서" "하지만"
      <<44536, 47088, 45936>>, <<46608>>, <<46608, 45716>>, <<54841, 51008>>, <<51060, 44163>>, <<51200, 44163>>, <<44536, 44163>>,  \* "그런데" "또" "또는" "혹은" "이것" "저것" "그것"
      <<51221, 47568>>, <<51652, 51676>>, <<50557, 44036>>, <<51328>>, <<45320, 47924>>, <<44536, 45285>>,  \* "정말" "진짜" "약간" "좀" "너무" "그냥"
      <<51060, 48264>>, <<50724, 45720>>, <<50689, 49345>>, <<49884, 44036>>, <<50668, 47084, 48516>> }  \* "이번" "오늘" "영상" "시간" "여러분"

tokenize_korean(text) ==
    LET cleaned == [i \in 1..Len(text) |->
                       IF IsDigit(text[i]) \/ IsAlpha(text[i]) \/ IsHangul(text[i])
                          \/ IsSpace(text[i])
                       THEN text[i] ELSE 32]
    IN SplitWs(cleaned)

word_count(text) == Len(tokenize_korean(text))

\* a float as an exact rational n/d with d > 0
Rat(n, d) == IF d < 0 THEN [n |-> -n, d |-> -d] ELSE [n |-> n, d |-> d]

RatIsZero(q) == q.n = 0

\* the exception a / b raises for b = 0
ZeroDivisionError == [n |-> 0, d |-> 0]

\* a / b
RatDiv(a, b) == IF b.n = 0 THEN ZeroDivisionError ELSE Rat(a.n * b.d, a.d * b.n)

\* q < n/d, q >= n/d, ... against a decimal literal n/d (d > 0)
RatLt(q, n, d) == q.n * d < n * q.d
RatLe(q, n, d) == q.n * d <= n * q.d
RatGe(q, n, d) == ~RatLt(q, n, d)
RatGt(q, n, d) == ~RatLe(q, n, d)

\* safe_div returning a, not the default, for a zero b
safe_div_nodefault(a, b, default) == IF ~RatIsZero(b) THEN RatDiv(a, b) ELSE a

safe_div(a, b, default) ==
    LET r == IF ~RatIsZero(b) THEN RatDiv(a, b) ELSE default
    IN IF r = ZeroDivisionError THEN default ELSE r

\* round(q, digits) as the integer number of 10^-digits units, ties to even
\* (an exact tie of q is decided in Python by the double nearest to q; the rates
\* and speeds drawn here are never an odd multiple of half a unit)
Pow10(k) == IF k = 0 THEN 1 ELSE IF k = 1 THEN 10 ELSE IF k = 2 THEN 100
            ELSE IF k = 3 THEN 1000 ELSE 10000

Round(q, digits) ==
    LET num  == q.n * Pow10(digits)
        fl   == num \div q.d
        rem2 == 2 * (num - fl * q.d)
    IN IF rem2 > q.d THEN fl + 1
       ELSE IF rem2 < q.d THEN fl
       ELSE IF fl % 2 = 0 THEN fl ELSE fl + 1

\* KeyLess with ties broken by descending word
KeyLessTieDesc(freq, a, b) == freq[a] > freq[b] \/ (freq[a] = freq[b] /\ LexLess(b, a))

\* the (-count, word) sort key order of top_keywords
KeyLess(freq, a, b) == freq[a] > freq[b] \/ (freq[a] = freq[b] /\ LexLess(a, b))

\* sorted(freq.items(), key=lambda x: (-x[1], x[0])), the words only
RECURSIVE SortedWords(_, _)
SortedWords(freq, ws) ==
    IF ws = {} THEN <<>>
    ELSE LET w == CHOOSE w \in ws : \A v \in ws \ {w} : KeyLess(freq, w, v)
         IN << w >> \o SortedWords(freq, ws \ {w})

\* top_keywords without the stopword test
top_keywords_keepstop(text, k) ==
    LET toks == tokenize_korean(Lower(text))
        kept == SelectSeq(toks, LAMBDA t : ~(Len(t) <= 1))
        freq == [w \in Range(kept) |-> Cardinality({i \in 1..Len(kept) : kept[i] = w})]
    IN Slice(SortedWords(freq, DOMAIN freq), k)

top_keywords(text, k) ==
    LET toks == tokenize_korean(Lower(text))
        kept == SelectSeq(toks, LAMBDA t : ~(t \in KOREAN_STOPWORDS \/ Len(t) <= 1))
        freq == [w \in Range(kept) |-> Cardinality({i \in 1..Len(kept) : kept[i] = w})]
    IN Slice(SortedWords(freq, DOMAIN freq), k)

----------------------------------------------------------------------------
(* Signal detectors *)

\* \b before position i (s[i] a word character) / after position i (s[i] a word character)
BoundaryBefore(s, i) == i = 1 \/ ~IsWord(s[i - 1])
BoundaryAfter(s, i) == i = Len(s) \/ ~IsWord(s[i + 1])

\* the regex classes \d, \s and . (any character but the newline)
InClass(c, cls) ==
    IF cls = "\\d" THEN IsDigit(c) ELSE IF cls = "\\s" THEN IsSpace(c) ELSE c # 10

\* the end of the maximal run of characters of the class that starts at i (i - 1 if none)
RunEnd(s, i, cls) ==
    IF \E j \in i..Len(s) : ~InClass(s[j], cls)
    THEN (CHOOSE j \in i..Len(s) :
              ~InClass(s[j], cls) /\ \A m \in i..(j - 1) : InClass(s[m], cls)) - 1
    ELSE Len(s)

\* (초|분|시간|일|주|개월|년)
DURATION_UNITS == << <<52488>>, <<48516>>, <<49884, 44036>>, <<51068>>, <<51452>>, <<44060, 50900>>, <<45380>> >>  \* "초" "분" "시간" "일" "주" "개월" "년"

StartsAt(s, i, sub) == i + Len(sub) - 1 <= Len(s) /\ SubSeq(s, i, i + Len(sub) - 1) = sub

\* (unit)\b matched at position i
UnitAt(s, i) ==
    \E u \in 1..Len(DURATION_UNITS) :
        /\ StartsAt(s, i, DURATION_UNITS[u])
        /\ BoundaryAfter(s, i + Len(DURATION_UNITS[u]) - 1)

\* re.search(r"\b\d+\s*(초|분|시간|일|주|개월|년)\b", s) is not None
SearchNumberDuration(s) ==
    \E i \in 1..Len(s) :
        /\ IsDigit(s[i])
        /\ BoundaryBefore(s, i)
        /\ UnitAt(s, RunEnd(s, RunEnd(s, i, "\\d") + 1, "\\s") + 1)

\* re.search(r"\b(초|분|시간|일|주|개월|년)\b", s)
SearchDuration(s) == \E i \in 1..Len(s) : BoundaryBefore(s, i) /\ UnitAt(s, i)

\* re.search(r"\d+", s)
SearchNumber(s) == \E i \in 1..Len(s) : IsDigit(s[i])

HOOK_EMOTION == << <<52649, 44201>>, <<49548, 47492>>, <<47792, 46992, 45912>>, <<48152, 51204>>, <<52572, 44053>>, <<54596, 49688>> >>  \* "충격" "소름" "몰랐던" "반전" "최강" "필수"
HOOK_CONTRAST == << <<54616, 51648, 47564>>, <<47928, 51228, 45716>>, <<45824, 49888>>, Str("vs"), <<48152, 47732>> >>  \* "하지만" "문제는" "대신" "반면"
HOOK_ADDRESS == << <<50668, 47084, 48516>>, <<45817, 49888>>, <<51648, 44552>>, <<44845>> >>  \* "여러분" "당신" "지금" "꼭"
HOOK_PROMISE == << <<48169, 48277>>, <<44992, 54017>>, <<48708, 48277>>, <<51221, 47532>>, <<44032, 51060, 46300>>, <<47924, 47308>> >>  \* "방법" "꿀팁" "비법" "정리" "가이드" "무료"

CountTrue(bs) == Cardinality({i \in 1..Len(bs) : bs[i]})

HOOK_WINDOW == 400
PREVIEW_LEN == 120

\* detect_hook scanning the whole trimmed script
detect_hook_unbounded(script_text) ==
    LET first_200 == Strip(script_text)
        signals == << << <<49707, 51088, 47, 44592, 44036>>, SearchNumberDuration(first_200) >>,  \* "숫자/기간"
                      << <<44053, 54620, 44048, 51221>>, AnyIn(HOOK_EMOTION, first_200) >>,  \* "강한감정"
                      << <<45824, 48708, 47, 44040, 46321>>, AnyIn(HOOK_CONTRAST, first_200) >>,  \* "대비/갈등"
                      << <<49884, 52397, 51088, 54840, 52636>>, AnyIn(HOOK_ADDRESS, first_200) >>,  \* "시청자호출"
                      << <<50557, 49549, 47, 54812, 53469>>, AnyIn(HOOK_PROMISE, first_200) >> >>  \* "약속/혜택"
        score == CountTrue([i \in 1..Len(signals) |-> signals[i][2]])
    IN [ hook_preview |-> Slice(ReplaceChar(first_200, 10, 32), PREVIEW_LEN)
                            \o (IF Len(first_200) > PREVIEW_LEN THEN Str("...") ELSE <<>>),
         signals |-> signals,
         score_5 |-> score ]

detect_hook(script_text) ==
    LET first_200 == Slice(Strip(script_text), HOOK_WINDOW)
        signals == << << <<49707, 51088, 47, 44592, 44036>>, SearchNumberDuration(first_200) >>,  \* "숫자/기간"
                      << <<44053, 54620, 44048, 51221>>, AnyIn(HOOK_EMOTION, first_200) >>,  \* "강한감정"
                      << <<45824, 48708, 47, 44040, 46321>>, AnyIn(HOOK_CONTRAST, first_200) >>,  \* "대비/갈등"
                      << <<49884, 52397, 51088, 54840, 52636>>, AnyIn(HOOK_ADDRESS, first_200) >>,  \* "시청자호출"
                      << <<50557, 49549, 47, 54812, 53469>>, AnyIn(HOOK_PROMISE, first_200) >> >>  \* "약속/혜택"
        score == CountTrue([i \in 1..Len(signals) |-> signals[i][2]])
    IN [ hook_preview |-> Slice(ReplaceChar(first_200, 10, 32), PREVIEW_LEN)
                            \o (IF Len(first_200) > PREVIEW_LEN THEN Str("...") ELSE <<>>),
         signals |-> signals,
         score_5 |-> score ]

\* ^ under re.M
LineStart(s, i) == i = 1 \/ s[i - 1] = 10

\* .+$ from position p: the end of the line, provided it holds a character
RestOfLine(s, p) == IF p <= Len(s) /\ s[p] # 10 THEN RunEnd(s, p, ".") ELSE 0

\* 챕터\s*\d+ and 파트\s*\d+
LabelNumberEnd(s, i, label) ==
    IF StartsAt(s, i, label)
    THEN LET d == RunEnd(s, i + Len(label), "\\s") + 1
             e == RunEnd(s, d, "\\d")
         IN IF e >= d THEN e ELSE 0
    ELSE 0

\* ^#.+$
HashLineEnd(s, i) ==
    IF LineStart(s, i) /\ i <= Len(s) /\ s[i] = 35 THEN RestOfLine(s, i + 1) ELSE 0

\* \s+.+$ from position w: the longest whitespace run that leaves a character of its line
SpaceThenRest(s, w) ==
    LET e == RunEnd(s, w, "\\s")
        ok == {j \in w..e : RestOfLine(s, j + 1) > 0}
    IN IF ok = {} THEN 0
       ELSE RestOfLine(s, (CHOOSE j \in ok : \A m \in ok : m <= j) + 1)

\* ^\d+\.\s+.+$
NumberedLineEnd(s, i) ==
    IF LineStart(s, i) /\ i <= Len(s) /\ IsDigit(s[i])
    THEN LET d == RunEnd(s, i, "\\d")
         IN IF d + 1 <= Len(s) /\ s[d + 1] = 46 THEN SpaceThenRest(s, d + 2) ELSE 0
    ELSE 0

\* ^##\s+.+$
HashHashLineEnd(s, i) ==
    IF LineStart(s, i) /\ StartsAt(s, i, Str("##")) THEN SpaceThenRest(s, i + 2) ELSE 0

\* the end of the match of the marker pattern at position i, 0 if none: the
\* alternatives in order, the first that matches at i gives the match
MarkerEnd(s, i) ==
    LET a1 == LabelNumberEnd(s, i, <<52309, 53552>>)  \* "챕터"
        a2 == LabelNumberEnd(s, i, <<54028, 53944>>)  \* "파트"
        a3 == HashLineEnd(s, i)
        a4 == NumberedLineEnd(s, i)
        a5 == HashHashLineEnd(s, i)
    IN IF a1 > 0 THEN a1 ELSE IF a2 > 0 THEN a2 ELSE IF a3 > 0 THEN a3
       ELSE IF a4 > 0 THEN a4 ELSE a5

\* re.findall(pattern, s, flags=re.M): the non-overlapping matches from position pos on
RECURSIVE FindMarkers(_, _)
FindMarkers(s, pos) ==
    IF \E i \in pos..Len(s) : MarkerEnd(s, i) > 0
    THEN LET i == CHOOSE i \in pos..Len(s) :
                      MarkerEnd(s, i) > 0 /\ \A j \in pos..(i - 1) : MarkerEnd(s, j) = 0
             e == MarkerEnd(s, i)
         IN << SubSeq(s, i, e) >> \o FindMarkers(s, e + 1)
    ELSE <<>>

MARKERS_SAMPLE == 5

estimate_sections(script_text) ==
    LET markers == FindMarkers(script_text, 1)
    IN [ estimated_chapters |-> Len(markers), markers_sample |-> Slice(markers, MARKERS_SAMPLE) ]

POWER_WORDS ==
    << <<52649, 44201>>, <<44277, 44060>>, <<48708, 48128>>, <<49892, 54744>>, <<53580, 49828, 53944>>, <<44032, 51060, 46300>>, <<44992, 54017>>, <<50756, 48317>>, <<44596, 44553>>, <<51452, 51032>> >>  \* "충격" "공개" "비밀" "실험" "테스트" "가이드" "꿀팁" "완벽" "긴급" "주의"

TITLE_KEYWORDS == 10

title_analysis(title) ==
    LET kws == top_keywords(title, TITLE_KEYWORDS)
        has_number == SearchNumber(title)
        has_duration == SearchDuration(title)
        power_hit == Cardinality({i \in 1..Len(POWER_WORDS) : In(POWER_WORDS[i], title)})
        specificity == CountTrue(<< has_number, has_duration >>) + Min(power_hit, 2)
    IN [ keywords |-> kws, has_number |-> has_number, has_duration |-> has_duration,
         power_words_hit |-> power_hit, specificity_score_0_4 |-> specificity ]

CUE_FACE == << <<50620, 44404>>, <<53364, 47196, 51592, 50629>>, <<54364, 51221>>, <<45576, 47932>>, <<50883, 51020>>, <<45440, 46988>> >>  \* "얼굴" "클로즈업" "표정" "눈물" "웃음" "놀람"
CUE_CONTRAST == << <<51204, 54980>>, Str("Before"), Str("After"), <<48708, 44368>>, <<45824, 48708>>, Str("VS"), Str("vs") >>  \* "전후" "비교" "대비"
CUE_TEXT == << <<45824, 47928, 51088>>, <<44405, 51008>>, <<44053, 51312>>, <<53581, 49828, 53944>>, <<49707, 51088>> >>  \* "대문자" "굵은" "강조" "텍스트" "숫자"
CUE_OBJECT == << <<46020, 44396>>, <<51228, 54408>>, <<51109, 52824>>, <<44592, 44228>>, <<53412, 53944>>, <<49464, 53944>> >>  \* "도구" "제품" "장치" "기계" "키트" "세트"
CUE_COLOR == << <<54805, 44305>>, <<50896, 49353>>, <<45348, 50728>>, <<48744, 44053>>, <<45432, 46993>>, <<54028, 46993>> >>  \* "형광" "원색" "네온" "빨강" "노랑" "파랑"

thumbnail_analysis(thumbnail_desc) ==
    LET cues == [ face_closeup |-> AnyIn(CUE_FACE, thumbnail_desc),
                  contrast |-> AnyIn(CUE_CONTRAST, thumbnail_desc),
                  big_text |-> AnyIn(CUE_TEXT, thumbnail_desc),
                  object_tool |-> AnyIn(CUE_OBJECT, thumbnail_desc),
                  color_pop |-> AnyIn(CUE_COLOR, thumbnail_desc) ]
        score == Cardinality({f \in DOMAIN cues : cues[f]})
    IN [ cues |-> cues, salience_score_0_5 |-> score ]

PACE_SLOW == <<45712, 47548, 40, 49436, 49324, 47, 49444, 47749, 54805, 32, 51201, 54633, 41>>  \* "느림(서사/설명형 적합)"
PACE_OK == <<51201, 51221, 40, 45824, 48512, 48516, 51032, 32, 51221, 48372, 47, 44368, 50977, 54805, 41>>  \* "적정(대부분의 정보/교육형)"
PACE_BRISK == <<51312, 44552, 32, 48736, 47492, 40, 50644, 53552, 53580, 51064, 47, 54616, 51060, 46972, 51060, 53944, 41>>  \* "조금 빠름(엔터테인/하이라이트)"
PACE_FAST == <<47588, 50864, 32, 48736, 47492, 40, 44284, 48128, 32, 44032, 45733, 41>>  \* "매우 빠름(과밀 가능)"

\* wpm is returned rounded to one decimal: the number of tenths
pacing_analysis(seconds, script_text) ==
    LET words == word_count(script_text)
        wpm == safe_div(Rat(words, 1), Rat(seconds, 60), Rat(0, 1))
        pace == IF RatLt(wpm, 120, 1) THEN PACE_SLOW
                ELSE IF RatLt(wpm, 160, 1) THEN PACE_OK
                ELSE IF RatLt(wpm, 200, 1) THEN PACE_BRISK
                ELSE PACE_FAST
    IN IF wpm = ZeroDivisionError THEN ZeroDivisionError
       ELSE [ words |-> words, wpm |-> Round(wpm, 1), pacing_comment |-> pace ]

TIER_MID == <<48372, 53685, 40, 49, 126, 52, 37, 41>>  \* "보통(1~4%)"
TIER_LOW == <<45230, 51020, 40, 60, 49, 37, 41>>  \* "낮음(<1%)"
TIER_HIGH == <<45458, 51020, 40, 53, 37, 43, 41>>  \* "높음(5%+)"

\* engagement_rate is returned rounded to four decimals: the number of 1/10000
engagement_metrics(views, likes) ==
    LET er == safe_div(Rat(likes, 1), Rat(views, 1), Rat(0, 1))
        tier == IF RatLt(er, 1, 100) THEN TIER_LOW
                ELSE IF RatGe(er, 5, 100) THEN TIER_HIGH
                ELSE TIER_MID
    IN IF er = ZeroDivisionError THEN ZeroDivisionError
       ELSE [ engagement_rate |-> Round(er, 4), tier |-> tier ]

----------------------------------------------------------------------------
(* Reference analyzer *)

\* str(n) for n >= 0
RECURSIVE Digits(_)
Digits(n) == IF n < 10 THEN << 48 + n >> ELSE Digits(n \div 10) \o << 48 + (n % 10) >>

\* f"{n:02d}"
Fmt02d(n) == IF n < 0 THEN << 45 >> \o Digits(-n)
             ELSE IF n < 10 THEN << 48 >> \o Digits(n) ELSE Digits(n)

mmss(seconds) == Fmt02d(seconds \div 60) \o << 58 >> \o Fmt02d(seconds % 60)

STRENGTH_HOOK == <<49884, 51089, 32, 50, 48, 126, 51, 48, 52488, 50640, 32, 44053, 54620, 32, 54981, 32, 49888, 54840, 44032, 32, 52649, 48516, 54632>>  \* "시작 20~30초에 강한 훅 신호가 충분함"
STRENGTH_TITLE == <<51228, 47785, 50640, 32, 49707, 51088, 47, 44592, 44036, 47, 54028, 50892, 50892, 46300, 47196, 32, 44396, 52404, 49457, 32, 54869, 48372>>  \* "제목에 숫자/기간/파워워드로 구체성 확보"
STRENGTH_THUMB == <<50040, 45348, 51068, 32, 45824, 48708, 47, 44061, 52404, 32, 44053, 51312, 44032, 32, 49884, 44033, 51201, 32, 51452, 47785, 51012, 32, 45140>>  \* "썸네일 대비/객체 강조가 시각적 주목을 끔"
STRENGTH_ENGAGEMENT == <<52280, 50668, 50984, 51060, 32, 45458, 51008, 32, 54200, 51004, 47196, 44, 32, 44277, 44048, 47, 49892, 50857, 32, 54252, 51064, 53944, 44032, 32, 44053, 54632>>  \* "참여율이 높은 편으로, 공감/실용 포인트가 강함"
STRENGTH_PACE == <<47568, 54616, 44592, 32, 49549, 46020, 44032, 32, 51201, 51221, 32, 48276, 50948, 47196, 32, 51060, 53448, 32, 51201, 51020>>  \* "말하기 속도가 적정 범위로 이탈 적음"
STRENGTH_SECTIONS == <<52309, 53552, 32, 44396, 49457, 51060, 32, 51316, 51116, 54616, 50668, 32, 55120, 47492, 51060, 32, 47749, 54869, 54632>>  \* "챕터 구성이 존재하여 흐름이 명확함"

Arrow == << 8594 >>

RISK_HOOK == <<50724, 54532, 45789, 32, 54981, 32, 49888, 54840, 44032, 32, 50557, 54632, 32>> \o Arrow \o <<32, 52395, 32, 49, 48, 52488, 32, 44060, 49440, 32, 54596, 50836>>  \* "오프닝 훅 신호가 약함 " " 첫 10초 개선 필요"
RISK_TITLE == <<51228, 47785, 51032, 32, 51088, 44537, 47, 44396, 52404, 32, 49888, 54840, 32, 48512, 51313, 32>> \o Arrow \o <<32, 49707, 51088, 47, 44592, 44036, 47, 44208, 44284, 47484, 32, 45432, 52636>>  \* "제목의 자극/구체 신호 부족 " " 숫자/기간/결과를 노출"
RISK_PACE == <<48156, 54868, 32, 48128, 46020, 32, 44284, 45796, 32>> \o Arrow \o <<32, 52983, 50612, 50920, 51060, 50752, 32, 55092, 51648, 51216, 32, 54596, 50836>>  \* "발화 밀도 과다 " " 컷어웨이와 휴지점 필요"
RISK_THUMB == <<50040, 45348, 51068, 32, 51076, 54057, 53944, 32, 50557, 54632, 32>> \o Arrow \o <<32, 45824, 48708, 47, 54364, 51221, 47, 45824, 54805, 32, 49707, 51088, 32, 54876, 50857>>  \* "썸네일 임팩트 약함 " " 대비/표정/대형 숫자 활용"
RISK_ENGAGEMENT == <<52280, 50668, 50984, 32, 45230, 51020, 32>> \o Arrow \o <<32, 52309, 53552, 48324, 32, 51656, 47928, 47, 45843, 44544, 32, 50976, 46020, 32, 51109, 52824, 32, 52628, 44032>>  \* "참여율 낮음 " " 챕터별 질문/댓글 유도 장치 추가"

WHY_HIGH ==
    << <<54981, 45, 51228, 47785, 45, 50040, 45348, 51068, 51060, 32, 51068, 44288, 46104, 44172, 32, 44057, 51008, 32, 50557, 49549, 51012, 32, 51204, 45804>>,  \* "훅-제목-썸네일이 일관되게 같은 약속을 전달"
       <<51221, 48372, 32, 48128, 46020, 50752, 32, 52983, 32, 51204, 54872, 51060, 32, 51648, 47336, 54632, 51012, 32, 48169, 51648>>,  \* "정보 밀도와 컷 전환이 지루함을 방지"
       <<47928, 51228, 45, 54644, 44208, 32, 44396, 51312, 47196, 32, 51593, 49884, 51201, 32, 54952, 50857, 51012, 32, 50557, 49549>>,  \* "문제-해결 구조로 즉시적 효용을 약속"
       <<47749, 54869, 54620, 32, 45824, 49345, 40, 54168, 47476, 49548, 45208, 41, 32, 51648, 51221, 51012, 32, 53685, 54644, 32, 44277, 44048, 32, 44053, 54868>> >>  \* "명확한 대상(페르소나) 지정을 통해 공감 강화"

\* [x] if cond else []
If(cond, x) == IF cond THEN << x >> ELSE <<>>

\* the rounded scores are compared in their units: wpm in tenths (120 is 1200),
\* engagement_rate in 1/10000 (0.05 is 500, 0.01 is 100)
Strengths(hook_a, title_a, thumb_a, eng_a, pace_a, sections_a) ==
    If(hook_a.score_5 >= 3, STRENGTH_HOOK)
    \o If(title_a.specificity_score_0_4 >= 2, STRENGTH_TITLE)
    \o If(thumb_a.salience_score_0_5 >= 3, STRENGTH_THUMB)
    \o If(eng_a.engagement_rate >= 500, STRENGTH_ENGAGEMENT)
    \o If(1200 <= pace_a.wpm /\ pace_a.wpm <= 1900, STRENGTH_PACE)
    \o If(sections_a.estimated_chapters >= 3, STRENGTH_SECTIONS)

\* Risks with the hook risk at score <= 3
RisksHook3(hook_a, title_a, thumb_a, eng_a, pace_a) ==
    If(hook_a.score_5 <= 3, RISK_HOOK)
    \o If(title_a.power_words_hit = 0 /\ ~title_a.has_number, RISK_TITLE)
    \o If(pace_a.wpm > 2000, RISK_PACE)
    \o If(thumb_a.salience_score_0_5 <= 2, RISK_THUMB)
    \o If(eng_a.engagement_rate < 100, RISK_ENGAGEMENT)

Risks(hook_a, title_a, thumb_a, eng_a, pace_a) ==
    If(hook_a.score_5 <= 2, RISK_HOOK)
    \o If(title_a.power_words_hit = 0 /\ ~title_a.has_number, RISK_TITLE)
    \o If(pace_a.wpm > 2000, RISK_PACE)
    \o If(thumb_a.salience_score_0_5 <= 2, RISK_THUMB)
    \o If(eng_a.engagement_rate < 100, RISK_ENGAGEMENT)

analyze_reference(ref) ==
    LET title_a == title_analysis(ref.title)
        thumb_a == thumbnail_analysis(ref.thumbnail)
        hook_a == detect_hook(ref.script_text)
        pace_a == pacing_analysis(ref.seconds, ref.script_text)
        eng_a == engagement_metrics(ref.views, ref.likes)
        sections_a == estimate_sections(ref.script_text)
    IN IF pace_a = ZeroDivisionError \/ eng_a = ZeroDivisionError THEN ZeroDivisionError
       ELSE [ summary |-> [ runtime |-> mmss(ref.seconds),
                            engagement |-> eng_a,
                            pacing |-> pace_a,
                            title |-> title_a,
                            thumbnail |-> thumb_a,
                            hook |-> hook_a,
                            sections |-> sections_a ],
              strengths |-> Strengths(hook_a, title_a, thumb_a, eng_a, pace_a, sections_a),
              risks |-> Risks(hook_a, title_a, thumb_a, eng_a, pace_a),
              why_it_performed |-> WHY_HIGH ]

----------------------------------------------------------------------------
(* Idea generation *)

BASE_ANGLES ==
    << << <<49892, 54744, 47, 52300, 47536, 51648>>, <<51221, 54644, 51652, 32, 49884, 44036, 47, 50696, 49328, 47, 46020, 44396, 32, 51228, 54620, 51004, 47196, 32, 49892, 54744>> >>,  \* "실험/챌린지" "정해진 시간/예산/도구 제한으로 실험"
       << <<47344, 48652, 47112, 51060, 53433>>, <<53685, 45392, 47, 51096, 47803, 46108, 32, 47336, 54004, 51012, 32, 44648, 44256, 32, 44160, 51613>> >>,  \* "룰브레이킹" "통념/잘못된 루틴을 깨고 검증"
       << <<51665, 51473, 44277, 47029>>, <<54620, 32, 50836, 49548, 47564, 32, 44537, 54620, 51004, 47196, 32, 52572, 51201, 54868>> >>,  \* "집중공략" "한 요소만 극한으로 최적화"
       << <<52992, 51060, 49828, 49828, 53552, 46356>>, <<49457, 44277, 47, 49892, 54056, 32, 49324, 47168, 47484, 32, 54644, 48512>> >>,  \* "케이스스터디" "성공/실패 사례를 해부"
       << <<49828, 53664, 47532, 53588, 47553>>, <<44060, 51064, 49324, 47, 44040, 46321, 45, 48152, 51204, 32, 44396, 51312>> >>,  \* "스토리텔링" "개인사/갈등-반전 구조"
       << <<48708, 44368, 47, 45824, 44208>>, <<65, 47, 66, 32, 45824, 44208, 44284, 32, 49849, 51088, 32, 49440, 51221>> >>,  \* "비교/대결" "A/B 대결과 승자 선정"
       << <<53944, 47084, 48660, 49800, 54021>>, <<49892, 54056, 32, 50896, 51064, 32, 49, 48, 44032, 51648, 50752, 32, 54644, 44208>> >>,  \* "트러블슈팅" "실패 원인 10가지와 해결"
       << <<50896, 47532, 47, 54644, 48512>>, <<47700, 52964, 45768, 51608, 47, 49900, 47532, 54617, 51004, 47196, 32, 49444, 47749>> >>,  \* "원리/해부" "메커니즘/심리학으로 설명"
       << <<49549, 46020, 47088>>, <<88, 48516, 47564, 50640, 32, 44208, 44284, 32, 45236, 44592>> >>,  \* "속도런" "X분만에 결과 내기"
       << <<48120, 45768, 49884, 47532, 51592>>, <<80, 97, 114, 116, 49, 126, 51, 32, 50672, 49549, 32, 44396, 49457>> >> >>  \* "미니시리즈" "Part1~3 연속 구성"

DIFF_VAULT ==
    << <<54788, 51109, 32, 50724, 46356, 50724, 43, 51088, 47561, 32, 46041, 49884, 32, 45432, 52636>>,  \* "현장 오디오+자막 동시 노출"
       <<45843, 44544, 32, 48120, 49496, 32, 52292, 53469, 32, 54980, 32, 49892, 54744>>,  \* "댓글 미션 채택 후 실험"
       <<51109, 48708, 32, 49, 44060, 47564, 32, 54728, 50857>>,  \* "장비 1개만 허용"
       <<50696, 49328, 32, 49345, 54620, 49440, 32, 49, 47564, 50896>>,  \* "예산 상한선 1만원"
       <<51452, 50836, 32, 51109, 47732, 51008, 32, 50, 48176, 49549, 32, 53440, 51076, 47017, 49828>>,  \* "주요 장면은 2배속 타임랩스"
       <<49892, 54056, 50984, 32, 44277, 44060, 40, 37, 41, 50752, 32, 51116, 46020, 51204>>,  \* "실패율 공개(%)와 재도전"
       <<51204, 47928, 44032, 47, 48708, 51204, 47928, 44032, 32, 46041, 49884, 32, 53580, 49828, 53944>>,  \* "전문가/비전문가 동시 테스트"
       <<52397, 44033, 47, 47924, 51088, 47561, 32, 51217, 44540, 49457, 32, 48260, 51204, 32, 46041, 49884, 32, 51228, 44277>>,  \* "청각/무자막 접근성 버전 동시 제공"
       <<52309, 53552, 48324, 32, 52404, 53356, 47532, 49828, 53944, 32, 80, 68, 70, 32, 51228, 44277>>,  \* "챕터별 체크리스트 PDF 제공"
       <<49892, 49884, 44036, 32, 53440, 51060, 47672, 47, 52852, 50868, 53552, 32, 45432, 52636>> >>  \* "실시간 타이머/카운터 노출"

VARIANTS == << <<45796, 47476, 44172>>, <<44537, 54620, 51004, 47196>>, <<48152, 45824, 47196>>, <<51228, 47196, 48288, 51060, 49828>> >>  \* "다르게" "극한으로" "반대로" "제로베이스"

BASE_KEYWORDS == 6
TITLE_KEYWORDS_SHOWN == 3

\* the idea of index i (0-based) for the keywords base_kw
Idea(base_kw, i, angle, diff) ==
    [ idea_title |-> Str("[") \o angle[1] \o Str("] ")
                       \o Join(Str(", "), Slice(base_kw, TITLE_KEYWORDS_SHOWN))
                       \o <<47484, 32>> \o VARIANTS[(i % 4) + 1] \o <<32, 54644, 48420, 45796>>,  \* "를 " " 해봤다"
      concept |-> angle[2] \o <<32, 43, 32, 52264, 48324, 54252, 51064, 53944, 58, 32>> \o diff,  \* " + 차별포인트: "
      logline |-> <<47112, 54140, 47088, 49828, 51032, 32, 54645, 49900, 32, 51452, 51228, 40>> \o Join(Str(", "), base_kw) \o <<41, 47484, 32, 50976, 51648, 54616, 46104, 44, 32>>  \* "레퍼런스의 핵심 주제(" ")를 유지하되, "
                    \o angle[1] \o <<32, 53668, 51004, 47196, 32, 51204, 44060, 46, 32>> \o diff \o <<32, 51201, 50857, 46>> ]  \* " 톤으로 전개. " " 적용."

\* generate_ideas taking the differentiator at the phrasing variant's index
generate_ideas_diff4(ref, n) ==
    LET base_kw == top_keywords(ref.title \o Str(" ") \o ref.script_text, BASE_KEYWORDS)
    IN [ j \in 1..Max(n, 0) |->
           Idea(base_kw, j - 1, BASE_ANGLES[((j - 1) % Len(BASE_ANGLES)) + 1],
                DIFF_VAULT[((j - 1) % 4) + 1]) ]

\* for i in range(n): results.append(...)
generate_ideas(ref, n) ==
    LET base_kw == top_keywords(ref.title \o Str(" ") \o ref.script_text, BASE_KEYWORDS)
    IN [ j \in 1..Max(n, 0) |->
           Idea(base_kw, j - 1, BASE_ANGLES[((j - 1) % Len(BASE_ANGLES)) + 1],
                DIFF_VAULT[((j - 1) % Len(DIFF_VAULT)) + 1]) ]

auto_outline_from_idea(idea_title) ==
    << <<72, 111, 111, 107, 40, 47928, 51228, 32, 51228, 44592, 47, 50557, 49549, 41>>,  \* "Hook(문제 제기/약속)"
       <<52968, 53581, 49828, 53944, 40, 45824, 49345, 47, 51312, 44148, 32, 47749, 49884, 41>>,  \* "컨텍스트(대상/조건 명시)"
       <<48376, 32, 49892, 54744, 47, 51204, 44060, 40, 54028, 53944, 49, 41>>,  \* "본 실험/전개(파트1)"
       <<48376, 32, 49892, 54744, 47, 51204, 44060, 40, 54028, 53944, 50, 41>>,  \* "본 실험/전개(파트2)"
       <<44208, 44284, 47, 44368, 54984>>,  \* "결과/교훈"
       <<67, 84, 65, 40, 44396, 46021, 47, 45843, 44544, 32, 50976, 46020, 41>> >>  \* "CTA(구독/댓글 유도)"

----------------------------------------------------------------------------
(* Script assembly *)

\* dict.get(key, default)
Get(d, key, default) == IF key \in DOMAIN d THEN d[key] ELSE default

PERSONA_OPENERS ==
    << << <<51204, 47928, 44032>>, <<51221, 54869, 54620, 32, 45936, 51060, 53552, 50752, 32, 44540, 44144, 47196, 32, 50504, 45236, 54624, 44172, 50836, 46>> >>,  \* "전문가" "정확한 데이터와 근거로 안내할게요."
       << <<52828, 44396>>, <<49556, 51649, 54616, 44172, 44, 32, 54200, 54616, 44172, 32, 51060, 50556, 44592, 54644, 48380, 44172, 50836, 46>> >>,  \* "친구" "솔직하게, 편하게 이야기해볼게요."
       << <<50628, 47560, 32, 53356, 47532, 50640, 51060, 53552>>, <<49373, 54876, 32, 44048, 44033, 51004, 47196, 32, 46385, 32, 54596, 50836, 54620, 32, 48512, 48516, 47564, 32, 53077, 32, 51665, 50612, 51460, 44172, 50836, 46>> >>,  \* "엄마 크리에이터" "생활 감각으로 딱 필요한 부분만 콕 집어줄게요."
       << <<44368, 49324>>, <<54645, 49900, 47564, 32, 45800, 44228, 48324, 47196, 32, 51221, 47532, 54644, 32, 46300, 47540, 44172, 50836, 46>> >>,  \* "교사" "핵심만 단계별로 정리해 드릴게요."
       << <<47532, 54252, 53552>>, <<54788, 51109, 44048, 32, 51080, 44172, 32, 48736, 47476, 44172, 32, 51204, 45804, 54633, 45768, 45796, 46>> >> >>  \* "리포터" "현장감 있게 빠르게 전달합니다."

\* persona_openers.get(speaker, default)
Opener(speaker) ==
    IF \E i \in 1..Len(PERSONA_OPENERS) : PERSONA_OPENERS[i][1] = speaker
    THEN (CHOOSE o \in Range(PERSONA_OPENERS) : o[1] = speaker)[2]
    ELSE <<53668, 51008, 32, 51088, 50672, 49828, 47101, 44256, 32, 47749, 47308, 54633, 45768, 45796, 46>>  \* "톤은 자연스럽고 명료합니다."

EmDash == << 8212 >>

\* the lines one chapter appends: its header, then the template its label selects
ChapterLines(idx, ch, speaker, opener, title) ==
    << <<10, 35, 35, 35, 32, 52309, 53552, 32>> \o Digits(idx) \o Str(". ") \o ch >>  \* "\n### 챕터 "
    \o (IF idx = 1 THEN
            << <<45236, 47112, 51060, 49496, 58, 32, 40>> \o speaker \o Str(") ") \o opener \o <<32, 50724, 45720, 51008, 32, 39>> \o title  \* "내레이션: (" " 오늘은 '"
                   \o <<39, 32, 52968, 49481, 51004, 47196, 44, 32, 49892, 54665, 54616, 47732, 32, 48148, 47196, 32, 54952, 44284, 47484, 32, 54869, 51064, 54624, 32, 49688, 32, 51080, 44172, 32, 51456, 48708, 54664, 50612, 50836, 46>>,  \* "' 컨셉으로, 실행하면 바로 효과를 확인할 수 있게 준비했어요."
               <<54868, 47732, 58, 32, 44053, 54620, 32, 66, 45, 114, 111, 108, 108, 47, 53581, 49828, 53944, 32, 50724, 48260, 47112, 51060, 47196, 32, 54645, 49900, 32, 50557, 49549, 32, 49, 47928, 51109, 46>> >>  \* "화면: 강한 B-roll/텍스트 오버레이로 핵심 약속 1문장."
        ELSE IF In(<<52968, 53581, 49828, 53944>>, ch) \/ In(<<52968, 53581>>, ch) THEN  \* "컨텍스트" "컨텍"
            << <<45236, 47112, 51060, 49496, 58, 32, 45824, 49345, 44, 32, 51312, 44148, 44, 32, 51228, 54620, 40, 49884, 44036, 47, 50696, 49328, 47, 51109, 48708, 32, 49, 44060, 41, 51012, 32, 47749, 54869, 55176, 32, 49440, 50616, 54633, 45768, 45796, 46>>,  \* "내레이션: 대상, 조건, 제한(시간/예산/장비 1개)을 명확히 선언합니다."
               <<54868, 47732, 58, 32, 51088, 47561, 51004, 47196, 32, 51312, 44148, 32, 50836, 50557, 44, 32, 53580, 51060, 48660, 32, 44536, 47000, 54589, 32, 51, 51460, 46>> >>  \* "화면: 자막으로 조건 요약, 테이블 그래픽 3줄."
        ELSE IF In(<<48376, 32, 49892, 54744>>, ch) \/ In(<<51204, 44060>>, ch) \/ In(<<54028, 53944>>, ch) THEN  \* "본 실험" "전개" "파트"
            << <<45236, 47112, 51060, 49496, 58, 32, 45800, 44228, 48324, 32, 51652, 54665>> \o EmDash \o <<47928, 51228>> \o Arrow \o <<49884, 46020>> \o Arrow  \* "내레이션: 단계별 진행" "문제" "시도"
                   \o <<44288, 52272>> \o Arrow \o <<47700, 47784, 46, 32, 49892, 54056, 32, 54252, 51064, 53944, 45716, 32, 51593, 49884, 32, 54364, 49884, 46>>,  \* "관찰" "메모. 실패 포인트는 즉시 표시."
               <<54868, 47732, 58, 32, 47680, 54000, 52896, 32, 52983, 44, 32, 49892, 49884, 44036, 32, 53440, 51060, 47672, 44, 32, 52404, 53356, 47532, 49828, 53944, 32, 54045, 50629, 46>>,  \* "화면: 멀티캠 컷, 실시간 타이머, 체크리스트 팝업."
               <<54788, 51109, 32, 50724, 46356, 50724, 58, 32, 51452, 50836, 32, 48152, 51025, 51008, 32, 46972, 51060, 48652, 47196, 32, 49332, 47549, 45768, 45796, 46>> >>  \* "현장 오디오: 주요 반응은 라이브로 살립니다."
        ELSE IF In(<<44208, 44284>>, ch) \/ In(<<44368, 54984>>, ch) \/ In(<<51221, 47532>>, ch) THEN  \* "결과" "교훈" "정리"
            << <<45236, 47112, 51060, 49496, 58, 32, 54645, 49900, 32, 51064, 49324, 51060, 53944, 32, 51, 44060, 47484, 32, 49707, 51088, 47196, 32, 50836, 50557, 46, 32, 40, 48708, 50857, 44, 32, 49884, 44036, 44, 32, 49457, 44277, 47456, 41>>,  \* "내레이션: 핵심 인사이트 3개를 숫자로 요약. (비용, 시간, 성공률)"
               <<54868, 47732, 58, 32, 51204, 47, 54980, 32, 48708, 44368, 32, 50, 48516, 54624, 44, 32, 44536, 47000, 54532, 47, 49707, 51088, 32, 52852, 50868, 53552, 46>>,  \* "화면: 전/후 비교 2분할, 그래프/숫자 카운터."
               <<54620, 51460, 44208, 47200, 58, 32, 52488, 48372, 45716, 32, 65, 48512, 53552, 44, 32, 49689, 47144, 51008, 32, 66, 32, 51312, 54633, 51060, 32, 52572, 51201, 46>> >>  \* "한줄결론: 초보는 A부터, 숙련은 B 조합이 최적."
        ELSE IF In(Str("CTA"), ch) THEN
            << <<45236, 47112, 51060, 49496, 58, 32, 39, 50668, 47084, 48516, 32, 44221, 54744, 51008, 32, 50612, 46432, 45208, 50836, 63, 32, 45796, 51020, 50644, 32, 47924, 50631, 51012, 32, 44656, 44620, 50836, 63, 39, 32, 45843, 44544, 32, 48120, 49496, 32, 51228, 49884, 46>>,  \* "내레이션: '여러분 경험은 어땠나요? 다음엔 무엇을 깰까요?' 댓글 미션 제시."
               <<54868, 47732, 58, 32, 44396, 46021, 47, 50508, 47548, 47, 44288, 47144, 32, 50689, 49345, 32, 50, 44060, 32, 52852, 46300, 46>> >>  \* "화면: 구독/알림/관련 영상 2개 카드."
        ELSE
            << <<45236, 47112, 51060, 49496, 58, 32, 51060, 32, 52309, 53552, 51032, 32, 54252, 51064, 53944, 47484, 32, 50, 126, 51, 47928, 51109, 51004, 47196, 32, 46608, 48149, 46608, 48149, 32, 51204, 45804, 46>>,  \* "내레이션: 이 챕터의 포인트를 2~3문장으로 또박또박 전달."
               <<54868, 47732, 58, 32, 53412, 50892, 46300, 32, 50, 44060, 47564, 32, 53360, 32, 51088, 47561, 51004, 47196, 46>> >>)  \* "화면: 키워드 2개만 큰 자막으로."

\* for idx, ch in enumerate(chapters, start=1): ...
RECURSIVE AllChapterLines(_, _, _, _, _)
AllChapterLines(chapters, idx, speaker, opener, title) ==
    IF idx > Len(chapters) THEN <<>>
    ELSE ChapterLines(idx, chapters[idx], speaker, opener, title)
         \o AllChapterLines(chapters, idx + 1, speaker, opener, title)

generate_script(idea, speaker, chapters, filming_style) ==
    LET title == Get(idea, "idea_title", <<49352, 32, 50500, 51060, 46356, 50612>>)  \* "새 아이디어"
        logline == Get(idea, "logline", <<>>)
        header == << <<35, 32, 52572, 51333, 32, 45824, 48376, 58, 32>> \o title \o <<10>>,  \* "# 최종 대본: " "\n"
                     <<35, 35, 32, 50672, 52636, 32, 53668, 58, 32>> \o filming_style,  \* "## 연출 톤: "
                     <<35, 35, 32, 54868, 51088, 32, 54168, 47476, 49548, 45208, 58, 32>> \o speaker,  \* "## 화자 페르소나: "
                     <<35, 35, 32, 47196, 44536, 46972, 51064, 58, 32>> \o logline \o <<10>> >>  \* "## 로그라인: " "\n"
        opener == Opener(speaker)
    IN Join(<<10>>, header \o AllChapterLines(chapters, 1, speaker, opener, title))  \* "\n"

----------------------------------------------------------------------------
(* GUI: App.__init__ / App._build_layout *)

None == <<>>

DEFAULT_CHAPTERS ==
    <<72, 111, 111, 107, 40, 47928, 51228, 32, 51228, 44592, 47, 50557, 49549, 41, 44, 52968, 53581, 49828, 53944, 40, 45824, 49345, 47, 51312, 44148, 32, 47749, 49884, 41, 44, 48376, 32, 49892, 54744, 47, 51204, 44060, 40, 54028, 53944, 49, 41, 44, 48376, 32, 49892, 54744, 47, 51204, 44060, 40, 54028, 53944, 50, 41, 44, 44208, 44284, 47, 44368, 54984, 44, 67, 84, 65, 40, 44396, 46021, 47, 45843, 44544, 32, 50976, 46020, 41>>  \* "Hook(문제 제기/약속),컨텍스트(대상/조건 명시),본 실험/전개(파트1),본 실험/전개(파트2),결과/교훈,CTA(구독/댓글 유도)"

AppInit ==
    /\ var_views = <<>>
    /\ var_likes = <<>>
    /\ var_seconds = <<>>
    /\ var_title = <<>>
    /\ var_thumb = <<>>
    /\ txt_script = <<>>
    /\ var_chapters = DEFAULT_CHAPTERS
    /\ cbo_speaker = <<51204, 47928, 44032>>  \* "전문가"
    /\ cbo_style = <<49828, 53916, 46356, 50724, 32, 53668>>  \* "스튜디오 톤"
    /\ txt_analysis = <<>>
    /\ tree = <<>>
    /\ focus = <<>>
    /\ ideas = <<>>
    /\ selected_idea = None
    /\ txt_final = <<>>
    /\ page = "page_input"
    /\ msgbox = None
    /\ calls = <<>>

\* x.strip() or default
StripOr(x, default) == IF Strip(x) # <<>> THEN Strip(x) ELSE default

\* [c.strip() for c in ch_text.split(",") if c.strip()]
ParseChapters(raw) ==
    LET parts == SplitOn(Strip(raw), 44)
    IN SelectSeq([i \in 1..Len(parts) |-> Strip(parts[i])], LAMBDA c : c # <<>>)

\* build_script passing the parsed chapter list on as it is
build_script_text_nofallback(idea, speaker_raw, style_raw, chapters_raw) ==
    generate_script(idea, StripOr(speaker_raw, <<51204, 47928, 44032>>), ParseChapters(chapters_raw),  \* "전문가"
                    StripOr(style_raw, <<49828, 53916, 46356, 50724, 32, 53668>>))  \* "스튜디오 톤"

\* the script build_script assembles from the selected idea and the widgets' texts
build_script_text(idea, speaker_raw, style_raw, chapters_raw) ==
    LET speaker == StripOr(speaker_raw, <<51204, 47928, 44032>>)  \* "전문가"
        style == StripOr(style_raw, <<49828, 53916, 46356, 50724, 32, 53668>>)  \* "스튜디오 톤"
        parsed == ParseChapters(chapters_raw)
        chapters == IF parsed = <<>> THEN auto_outline_from_idea(idea.idea_title) ELSE parsed
    IN generate_script(idea, speaker, chapters, style)

\* str(x) of a JSON value: [int |-> n] (n >= 0) or [str |-> s]
PyStr(x) == IF "int" \in DOMAIN x THEN Digits(x.int) ELSE x.str

\* int(s) accepts s: an optional sign, then digits with single underscores between them
IsIntLiteral(s) ==
    LET body == IF s # <<>> /\ s[1] \in {43, 45} THEN Tail(s) ELSE s
    IN /\ body # <<>>
       /\ \A i \in 1..Len(body) :
            \/ IsDigit(body[i])
            \/ /\ body[i] = 95
               /\ 1 < i
               /\ i < Len(body)
               /\ IsDigit(body[i - 1])
               /\ IsDigit(body[i + 1])

\* the value of the digits of s, underscores skipped
RECURSIVE DigitsValue(_, _)
DigitsValue(s, acc) ==
    IF s = <<>> THEN acc
    ELSE IF s[1] = 95 THEN DigitsValue(Tail(s), acc)
    ELSE DigitsValue(Tail(s), 10 * acc + (s[1] - 48))

\* int(s) for a literal s
IntValue(s) ==
    IF s[1] = 45 THEN -DigitsValue(Tail(s), 0)
    ELSE IF s[1] = 43 THEN DigitsValue(Tail(s), 0)
    ELSE DigitsValue(s, 0)

\* repr(s) of a text without quotes, backslashes or control characters
Repr(s) == << 39 >> \o s \o << 39 >>

\* str(e) of the ValueError int(s) raises
IntError(s) == Str("invalid literal for int() with base 10: ") \o Repr(s)

REQUIRED_MESSAGE == <<51228, 47785, 44284, 32, 49828, 53356, 47549, 53944, 45716, 32, 54596, 49688, 51077, 45768, 45796, 46>>  \* "제목과 스크립트는 필수입니다."

\* _collect_input accepting an empty title or script
collect_input_nocheck(views_raw, likes_raw, seconds_raw, title_raw, thumb_raw, script_raw) ==
    LET v == Strip(views_raw)
        l == Strip(likes_raw)
        s == Strip(seconds_raw)
    IN IF ~IsIntLiteral(v) THEN [ok |-> FALSE, error |-> IntError(v)]
       ELSE IF ~IsIntLiteral(l) THEN [ok |-> FALSE, error |-> IntError(l)]
       ELSE IF ~IsIntLiteral(s) THEN [ok |-> FALSE, error |-> IntError(s)]
       ELSE [ok |-> TRUE,
             ref |-> [views |-> IntValue(v), likes |-> IntValue(l), seconds |-> IntValue(s),
                      title |-> Strip(title_raw), thumbnail |-> Strip(thumb_raw),
                      script_text |-> Strip(script_raw)]]

\* App._collect_input on the texts of the six input widgets: the record read,
\* or the text of the exception caught
collect_input(views_raw, likes_raw, seconds_raw, title_raw, thumb_raw, script_raw) ==
    LET v == Strip(views_raw)
        l == Strip(likes_raw)
        s == Strip(seconds_raw)
        title == Strip(title_raw)
        thumb == Strip(thumb_raw)
        script_text == Strip(script_raw)
    IN IF ~IsIntLiteral(v) THEN [ok |-> FALSE, error |-> IntError(v)]
       ELSE IF ~IsIntLiteral(l) THEN [ok |-> FALSE, error |-> IntError(l)]
       ELSE IF ~IsIntLiteral(s) THEN [ok |-> FALSE, error |-> IntError(s)]
       ELSE IF title = <<>> \/ script_text = <<>>
       THEN [ok |-> FALSE, error |-> REQUIRED_MESSAGE]
       ELSE [ok |-> TRUE,
             ref |-> [views |-> IntValue(v), likes |-> IntValue(l), seconds |-> IntValue(s),
                      title |-> title, thumbnail |-> thumb, script_text |-> script_text]]

\* Text.get("1.0", "end"): the contents and the final newline of the widget
TextGet(contents) == contents \o << 10 >>

\* messagebox.showinfo / showwarning / showerror
MessageBox(kind, title, message) == << [kind |-> kind, title |-> title, message |-> message] >>

\* k zeros
Zeros(k) == [i \in 1..k |-> 48]

\* s without its trailing zeros, the first character kept
RECURSIVE DropTrailingZeros(_)
DropTrailingZeros(s) ==
    IF Len(s) > 1 /\ s[Len(s)] = 48 THEN DropTrailingZeros(SubSeq(s, 1, Len(s) - 1)) ELSE s

\* repr of the float round(x, digits), given as units of 10^-digits
FloatRepr(units, digits) ==
    LET a == IF units < 0 THEN -units ELSE units
        ip == a \div Pow10(digits)
        fp == Digits(a % Pow10(digits))
        frac == Zeros(digits - Len(fp)) \o fp
    IN (IF units < 0 THEN << 45 >> ELSE <<>>)
       \o Digits(ip) \o << 46 >> \o DropTrailingZeros(frac)

\* "; ".join(items) if items else "-"
JoinOrDash(items) == IF items # <<>> THEN Join(Str("; "), items) ELSE Str("-")

\* the out_lines of run_analysis
out_lines(analysis) ==
    LET eng == analysis.summary.engagement
        pace == analysis.summary.pacing
        title_a == analysis.summary.title
        hook == analysis.summary.hook
        thumb == analysis.summary.thumbnail
    IN << <<9654, 32, 47084, 45789, 53440, 51076, 58, 32>> \o analysis.summary.runtime,  \* "▶ 러닝타임: "
          <<9654, 32, 52280, 50668, 50984, 58, 32>> \o FloatRepr(eng.engagement_rate, 4) \o Str(" (") \o eng.tier \o Str(")"),  \* "▶ 참여율: "
          <<9654, 32, 48156, 54868, 32, 49549, 46020, 58, 32>> \o FloatRepr(pace.wpm, 1) \o Str(" wpm (") \o pace.pacing_comment \o Str(")"),  \* "▶ 발화 속도: "
          <<9654, 32, 51228, 47785, 32, 53412, 50892, 46300, 58, 32>> \o Join(Str(", "), title_a.keywords),  \* "▶ 제목 키워드: "
          <<9654, 32, 51228, 47785, 32, 44396, 52404, 49457, 32, 51216, 49688, 58, 32>> \o Digits(title_a.specificity_score_0_4),  \* "▶ 제목 구체성 점수: "
          <<9654, 32, 54981, 32, 48120, 47532, 48372, 44592, 58, 32>> \o hook.hook_preview \o <<32, 40, 49888, 54840, 32>> \o Digits(hook.score_5) \o Str("/5)"),  \* "▶ 훅 미리보기: " " (신호 "
          <<9654, 32, 50040, 45348, 51068, 32, 115, 97, 108, 105, 101, 110, 99, 101, 58, 32>> \o Digits(thumb.salience_score_0_5) \o Str("/5"),  \* "▶ 썸네일 salience: "
          <<9654, 32, 44053, 51216, 58, 32>> \o JoinOrDash(analysis.strengths),  \* "▶ 강점: "
          <<9654, 32, 47532, 49828, 53356, 58, 32>> \o JoinOrDash(analysis.risks),  \* "▶ 리스크: "
          <<9654, 32, 49457, 44284, 32, 51060, 50976, 58, 32>> \o Join(Str("; "), analysis.why_it_performed) >>  \* "▶ 성과 이유: "

\* the Treeview rows run_analysis inserts: iid str(i), values (idea_title, concept, logline)
TreeRows(new_ideas) ==
    [ j \in 1..Len(new_ideas) |->
        [ iid |-> Digits(j - 1),
          values |-> << new_ideas[j].idea_title, new_ideas[j].concept, new_ideas[j].logline >> ] ]

IDEA_COUNT == 10

ANALYSIS_DONE == <<48516, 49437, 51060, 32, 50756, 47308, 46104, 50632, 49845, 45768, 45796, 46, 32, 50500, 51060, 46356, 50612, 32, 49, 48, 44060, 44032, 32, 49373, 49457, 46104, 50632, 49845, 45768, 45796, 46>>  \* "분석이 완료되었습니다. 아이디어 10개가 생성되었습니다."
SELECT_ONE == <<50500, 51060, 46356, 50612, 47484, 32, 54620, 32, 44060, 32, 49440, 53469, 54644, 51452, 49464, 50836, 46>>  \* "아이디어를 한 개 선택해주세요."
NO_IDEA == <<47676, 51200, 32, 50500, 51060, 46356, 50612, 47484, 32, 49440, 53469, 54644, 32, 51452, 49464, 50836, 46, 32, 40, 39, 48516, 49437, 32, 38, 32, 50500, 51060, 46356, 50612, 39, 32, 53485, 41>>  \* "먼저 아이디어를 선택해 주세요. ('분석 & 아이디어' 탭)"
SCRIPT_DONE == <<52572, 51333, 32, 45824, 48376, 51012, 32, 49373, 49457, 54664, 49845, 45768, 45796, 46, 32, 39, 45824, 48376, 32, 51200, 51109, 39, 51004, 47196, 32, 54028, 51068, 47196, 32, 51200, 51109, 54616, 49464, 50836, 46>>  \* "최종 대본을 생성했습니다. '대본 저장'으로 파일로 저장하세요."

----------------------------------------------------------------------------
(* GUI: the handlers of App *)

\* the JSON files the user may pick in load_json
FILE_A ==
    [ views |-> [int |-> 100], likes |-> [int |-> 5], seconds |-> [int |-> 60],
      title |-> [str |-> <<52488, 48372, 46020, 32, 46104, 45716, 32, 49, 48, 48516, 32, 51221, 47532, 32, 47336, 54004>>],  \* "초보도 되는 10분 정리 루틴"
      thumbnail |-> [str |-> <<50620, 44404, 32, 53364, 47196, 51592, 50629, 32, 118, 115, 32, 49707, 51088, 32, 45348, 50728>>],  \* "얼굴 클로즈업 vs 숫자 네온"
      script_text |-> [str |-> <<50668, 47084, 48516, 32, 52649, 44201, 32, 54616, 51648, 47564, 32, 51, 48516, 32, 51221, 47532, 10, 47336, 54004, 32, 51221, 47532>>] ]  \* "여러분 충격 하지만 3분 정리\n루틴 정리"

FILE_B ==
    [ views |-> [int |-> 2001], likes |-> [int |-> 100], seconds |-> [int |-> 2],
      title |-> [str |-> <<32, 52649, 44201, 32, 49892, 54744, 32, 44032, 51060, 46300, 32>>],  \* " 충격 실험 가이드 "
      script_text |-> [str |-> <<35, 32, 49892, 54744, 32, 65, 49, 10, 49, 46, 32, 44032, 51060, 46300, 32, 49892, 54744>> ] ]  \* "# 실험 A1\n1. 가이드 실험"

FILE_NO_TITLE ==
    [ views |-> [int |-> 100], likes |-> [int |-> 5], seconds |-> [int |-> 60],
      script_text |-> [str |-> <<47336, 54004, 32, 51221, 47532>>] ]  \* "루틴 정리"

FILE_BLANK_SCRIPT ==
    [ views |-> [int |-> 100], likes |-> [int |-> 5], seconds |-> [int |-> 60],
      title |-> [str |-> <<51221, 47532, 32, 47336, 54004>>], script_text |-> [str |-> Str("  ")] ]  \* "정리 루틴"

FILE_BAD_VIEWS ==
    [ views |-> [str |-> Str("1e3")], likes |-> [int |-> 5], seconds |-> [int |-> 60],
      title |-> [str |-> <<51221, 47532, 32, 47336, 54004>>], script_text |-> [str |-> <<47336, 54004, 32, 51221, 47532>>] ]  \* "정리 루틴" "루틴 정리"

FILE_BAD_LIKES ==
    [ views |-> [int |-> 100], likes |-> [str |-> Str("5.0")], seconds |-> [int |-> 60],
      title |-> [str |-> <<51221, 47532, 32, 47336, 54004>>], script_text |-> [str |-> <<47336, 54004, 32, 51221, 47532>>] ]  \* "정리 루틴" "루틴 정리"

FILE_NO_SECONDS ==
    [ views |-> [str |-> Str(" +1_000 ")], likes |-> [int |-> 5],
      title |-> [str |-> <<51221, 47532, 32, 47336, 54004>>], script_text |-> [str |-> <<47336, 54004, 32, 51221, 47532>>] ]  \* "정리 루틴" "루틴 정리"

JsonFiles ==
    { FILE_A, FILE_B, FILE_NO_TITLE, FILE_BLANK_SCRIPT, FILE_BAD_VIEWS, FILE_BAD_LIKES,
      FILE_NO_SECONDS }

\* str(e) of the exceptions open / json.load raise in load_json
JsonErrors == { Str("Expecting value: line 1 column 1 (char 0)") }

\* rows of the idea table the user clicks
MaxRows == 2

Init ==
    /\ AppInit
    /\ pc = "app"
    /\ arg = None
    /\ ret = None

\* load_json, the file dialog cancelled
load_json_cancelled ==
    /\ msgbox' = None
    /\ calls' = <<>>
    /\ UNCHANGED << var_views, var_likes, var_seconds, var_title, var_thumb, txt_script >>

\* load_json, open or json.load raising
load_json_failed ==
    \E e \in JsonErrors :
        /\ msgbox' = MessageBox("showerror", <<50724, 47448>>, <<48520, 47084, 50724, 44592, 32, 49892, 54056, 58, 32>> \o e)  \* "오류" "불러오기 실패: "
        /\ calls' = <<>>
        /\ UNCHANGED << var_views, var_likes, var_seconds, var_title, var_thumb, txt_script >>

\* load_json with the file read
load_json_read ==
    \E data \in JsonFiles :
        /\ var_views' = PyStr(Get(data, "views", [str |-> <<>>]))
        /\ var_likes' = PyStr(Get(data, "likes", [str |-> <<>>]))
        /\ var_seconds' = PyStr(Get(data, "seconds", [str |-> <<>>]))
        /\ var_title' = PyStr(Get(data, "title", [str |-> <<>>]))
        /\ var_thumb' = PyStr(Get(data, "thumbnail", [str |-> <<>>]))
        /\ txt_script' = PyStr(Get(data, "script_text", [str |-> <<>>]))
        /\ msgbox' = MessageBox("showinfo", <<48520, 47084, 50724, 44592, 32, 50756, 47308>>, <<74, 83, 79, 78, 51012, 32, 48520, 47084, 50772, 49845, 45768, 45796, 46>>)  \* "불러오기 완료" "JSON을 불러왔습니다."
        /\ calls' = <<>>

load_json ==
    /\ \/ load_json_cancelled
       \/ load_json_failed
       \/ load_json_read
    /\ UNCHANGED << var_chapters, cbo_speaker, cbo_style, txt_analysis, tree, focus, ideas,
                    selected_idea, txt_final, page, fnvars >>

\* the user clicks a row of the idea table
focus_row ==
    /\ \E j \in 1..Min(Len(tree), MaxRows) : focus' = tree[j].iid
    /\ msgbox' = None
    /\ calls' = <<>>
    /\ UNCHANGED << var_views, var_likes, var_seconds, var_title, var_thumb, txt_script,
                    var_chapters, cbo_speaker, cbo_style, txt_analysis, tree, ideas,
                    selected_idea, txt_final, page, fnvars >>

run_analysis ==
    LET r == collect_input(var_views, var_likes, var_seconds, var_title, var_thumb,
                           TextGet(txt_script))
    IN /\ IF ~r.ok
          THEN /\ msgbox' = MessageBox("showerror", <<51077, 47141, 32, 50724, 47448>>, r.error)  \* "입력 오류"
               /\ calls' = <<>>
               /\ UNCHANGED << txt_analysis, tree, focus, ideas >>
          ELSE LET analysis == analyze_reference(r.ref)
                   new_ideas == generate_ideas(r.ref, IDEA_COUNT)
               IN /\ ideas' = new_ideas
                  /\ txt_analysis' = Join(<< 10 >>, out_lines(analysis))
                  /\ tree' = TreeRows(new_ideas)
                  /\ focus' = <<>>
                  /\ calls' = << [fn |-> "analyze_reference", ref |-> r.ref],
                                 [fn |-> "generate_ideas", ref |-> r.ref] >>
                  /\ msgbox' = MessageBox("showinfo", <<50756, 47308>>, ANALYSIS_DONE)  \* "완료"
       /\ UNCHANGED << var_views, var_likes, var_seconds, var_title, var_thumb, txt_script,
                       var_chapters, cbo_speaker, cbo_style, selected_idea, txt_final, page,
                       fnvars >>

apply_selected_idea ==
    /\ IF focus = <<>>
       THEN /\ msgbox' = MessageBox("showwarning", <<49440, 53469, 32, 54596, 50836>>, SELECT_ONE)  \* "선택 필요"
            /\ UNCHANGED << selected_idea, page >>
       ELSE /\ selected_idea' = << ideas[IntValue(focus) + 1] >>
            /\ page' = "page_script"
            /\ msgbox' = None
    /\ calls' = <<>>
    /\ UNCHANGED << var_views, var_likes, var_seconds, var_title, var_thumb, txt_script,
                    var_chapters, cbo_speaker, cbo_style, txt_analysis, tree, focus, ideas,
                    txt_final, fnvars >>

\* build_script returning without a message when no idea is selected
build_script_silent ==
    /\ IF selected_idea = None
       THEN /\ msgbox' = None
            /\ calls' = <<>>
            /\ UNCHANGED txt_final
       ELSE /\ txt_final' = build_script_text(selected_idea[1], cbo_speaker, cbo_style,
                                              var_chapters)
            /\ calls' = << [fn |-> "generate_script", idea |-> selected_idea[1]] >>
            /\ msgbox' = MessageBox("showinfo", <<45824, 48376, 32, 49373, 49457>>, SCRIPT_DONE)  \* "대본 생성"
    /\ UNCHANGED << var_views, var_likes, var_seconds, var_title, var_thumb, txt_script,
                    var_chapters, cbo_speaker, cbo_style, txt_analysis, tree, focus, ideas,
                    selected_idea, page, fnvars >>

build_script ==
    /\ IF selected_idea = None
       THEN /\ msgbox' = MessageBox("showwarning", <<50500, 51060, 46356, 50612, 32, 50630, 51020>>, NO_IDEA)  \* "아이디어 없음"
            /\ calls' = <<>>
            /\ UNCHANGED txt_final
       ELSE /\ txt_final' = build_script_text(selected_idea[1], cbo_speaker, cbo_style,
                                              var_chapters)
            /\ calls' = << [fn |-> "generate_script", idea |-> selected_idea[1]] >>
            /\ msgbox' = MessageBox("showinfo", <<45824, 48376, 32, 49373, 49457>>, SCRIPT_DONE)  \* "대본 생성"
    /\ UNCHANGED << var_views, var_likes, var_seconds, var_title, var_thumb, txt_script,
                    var_chapters, cbo_speaker, cbo_style, txt_analysis, tree, focus, ideas,
                    selected_idea, page, fnvars >>

Next ==
    \/ load_json
    \/ focus_row
    \/ run_analysis
    \/ apply_selected_idea
    \/ build_script

Spec == Init /\ [][Next]_vars

\* the form does not pass validation: the title or the script text is empty
\* after trimming, or a numeric field is not an integer literal
InvalidForm ==
    \/ Strip(var_title) = <<>>
    \/ Strip(TextGet(txt_script)) = <<>>
    \/ ~IsIntLiteral(Strip(var_views))
    \/ ~IsIntLiteral(Strip(var_likes))
    \/ ~IsIntLiteral(Strip(var_seconds))

\* C7: a script is assembled and shown only by a build_script that finds an idea
\* chosen, and only apply_selected_idea chooses an idea (none is chosen at the
\* start); a build_script with no idea chosen shows the warning, does not call
\* generate_script, and leaves the final-script text and the selection unchanged.
C7_BuildNeedsSelection ==
    /\ selected_idea = None
    /\ [][ /\ (selected_idea = None /\ build_script =>
                 /\ msgbox' = MessageBox("showwarning", <<50500, 51060, 46356, 50612, 32, 50630, 51020>>, NO_IDEA)  \* "아이디어 없음"
                 /\ \A i \in 1..Len(calls') : calls'[i].fn # "generate_script"
                 /\ txt_final' = txt_final
                 /\ selected_idea' = selected_idea)
           /\ (txt_final' # txt_final => selected_idea # None /\ build_script)
           /\ (selected_idea' # selected_idea => focus # <<>> /\ apply_selected_idea)
         ]_vars

\* C7 witness: after an analysis, build_script has warned that no idea is chosen
C7_Witness ==
    /\ msgbox = MessageBox("showwarning", <<50500, 51060, 46356, 50612, 32, 50630, 51020>>, NO_IDEA)  \* "아이디어 없음"
    /\ selected_idea = None
    /\ ideas # <<>>
    /\ txt_final = <<>>

\* C8: run_analysis on a form with an empty title or script text (after
\* trimming) or a numeric field that is not an integer shows the input error,
\* calls neither analyze_reference nor generate_ideas, and leaves the idea
\* list, the idea table, the analysis text and the selected idea unchanged.
C8_InvalidFormNoComputation ==
    [][ InvalidForm /\ run_analysis =>
          /\ Len(msgbox') = 1
          /\ msgbox'[1].kind = "showerror"
          /\ msgbox'[1].title = <<51077, 47141, 32, 50724, 47448>>  \* "입력 오류"
          /\ calls' = <<>>
          /\ UNCHANGED << ideas, tree, txt_analysis, selected_idea >>
      ]_vars

\* C8 witness: run_analysis has rejected a form after an earlier analysis
\* produced ideas, one of which is selected
C8_Witness ==
    /\ Len(msgbox) = 1
    /\ msgbox[1].kind = "showerror"
    /\ msgbox[1].title = <<51077, 47141, 32, 50724, 47448>>  \* "입력 오류"
    /\ msgbox[1].message = REQUIRED_MESSAGE
    /\ ideas # <<>>
    /\ selected_idea # None

\* C10: whenever build_script assembles a script, the idea it uses is an
\* element of the current idea list of the most recent successful run_analysis.
C10_BuildsFromCurrentList ==
    \A i \in 1..Len(calls) :
        calls[i].fn = "generate_script" => calls[i].idea \in Range(ideas)

----------------------------------------------------------------------------
(* top_keywords applied to bounded texts *)

MaxCount == 2
MaxTokens == 5
MaxK == 3

KwVocab ==
    << <<50689, 49345>>, <<45796, 45796>>, Str("AB"), <<45208>>, <<44032, 44032>>, <<45796>>, <<45208, 45208>>, <<44032>> >>  \* "영상" "다다" "나" "가가" "다" "나나" "가"

Repeat(w, n) == [i \in 1..n |-> w]

RECURSIVE SumTo(_, _)
SumTo(f, n) == IF n = 0 THEN 0 ELSE f[n] + SumTo(f, n - 1)

RECURSIVE WordsOf(_, _)
WordsOf(cnt, n) == IF n = 0 THEN <<>> ELSE WordsOf(cnt, n - 1) \o Repeat(KwVocab[n], cnt[n])

\* the text with cnt[i] occurrences of KwVocab[i], separated by ", "
KwText(cnt) == Join(Str(", "), WordsOf(cnt, Len(KwVocab)))

KwCounts == {cnt \in [1..Len(KwVocab) -> 0..MaxCount] : SumTo(cnt, Len(KwVocab)) <= MaxTokens}

InitKw ==
    /\ AppInit
    /\ pc = "ready"
    /\ \E cnt \in KwCounts, k \in 0..MaxK : arg = [text |-> KwText(cnt), k |-> k]
    /\ ret = None

\* ks = top_keywords(text, k)
CallTopKeywords ==
    /\ pc = "ready"
    /\ ret' = << top_keywords(arg.text, arg.k) >>
    /\ pc' = "called"
    /\ UNCHANGED << arg, appvars >>

\* top_keywords(" ".join(ks), k)
RerunTopKeywords ==
    /\ pc = "called"
    /\ ret' = ret \o << top_keywords(Join(Str(" "), ret[1]), arg.k) >>
    /\ pc' = "done"
    /\ UNCHANGED << arg, appvars >>

NextKw == CallTopKeywords \/ RerunTopKeywords

SpecKw == InitKw /\ [][NextKw]_vars


\* the frequencies of the tokens toks
TokenFreq(toks) == [w \in Range(toks) |-> Cardinality({i \in 1..Len(toks) : toks[i] = w})]

\* r is the first k entries of the qualified tokens by descending frequency,
\* ties by ascending code-point order
KwRanked(r, k, freq) ==
    LET qualified == {w \in DOMAIN freq : w \notin KOREAN_STOPWORDS /\ Len(w) > 1}
        before(a, b) == freq[a] > freq[b] \/ (freq[a] = freq[b] /\ LexLess(a, b))
    IN /\ Len(r) = Min(k, Cardinality(qualified))
       /\ \A i \in 1..Len(r) : r[i] \in qualified
       /\ \A i \in 1..(Len(r) - 1) : before(r[i], r[i + 1])
       /\ \A w \in qualified \ Range(r) : \A i \in 1..Len(r) : before(r[i], w)

\* the token frequencies are exactly ws[i] :> ns[i]
FreqIs(freq, ws, ns) ==
    /\ DOMAIN freq = Range(ws)
    /\ \A i \in 1..Len(ws) : freq[ws[i]] = ns[i]

\* C3 (as amended): for every text and k >= 0, top_keywords(text, k) returns at
\* most k distinct tokens, none a stopword or of length <= 1, exactly the first
\* k of the lower-cased tokens by descending frequency with ties in ascending
\* lexicographic order; frequencies {가가:2, 나나:2, 다다:1} give 가가, 나나, 다다,
\* while the one-character tokens 가, 나, 다 are discarded.
C3_TopKeywordsRanked ==
    pc # "ready" =>
        LET freq == TokenFreq(tokenize_korean(Lower(arg.text)))
        IN /\ Len(ret[1]) <= arg.k
           /\ KwRanked(ret[1], arg.k, freq)
           /\ (FreqIs(freq, << <<44032, 44032>>, <<45208, 45208>>, <<45796, 45796>> >>, << 2, 2, 1 >>) /\ arg.k = 3  \* "가가" "나나" "다다"
                  => ret[1] = << <<44032, 44032>>, <<45208, 45208>>, <<45796, 45796>> >>)  \* "가가" "나나" "다다"
           /\ (FreqIs(freq, << <<44032>>, <<45208>>, <<45796>> >>, << 2, 2, 1 >>) => ret[1] = <<>>)  \* "가" "나" "다"

\* C3 witness: top_keywords has ranked 가가:2, 나나:2, 다다:1 with k = 3
C3_Witness ==
    /\ pc = "called"
    /\ arg.k = 3
    /\ FreqIs(TokenFreq(tokenize_korean(Lower(arg.text))),
              << <<44032, 44032>>, <<45208, 45208>>, <<45796, 45796>> >>, << 2, 2, 1 >>)  \* "가가" "나나" "다다"
    /\ ret[1] = << <<44032, 44032>>, <<45208, 45208>>, <<45796, 45796>> >>  \* "가가" "나나" "다다"

\* C3 (as stated): the ranking property, and frequencies {가:2, 나:2, 다:1}
\* give the order 가, 나, 다
C3_Original ==
    pc # "ready" =>
        LET freq == TokenFreq(tokenize_korean(Lower(arg.text)))
        IN /\ Len(ret[1]) <= arg.k
           /\ KwRanked(ret[1], arg.k, freq)
           /\ (FreqIs(freq, << <<44032>>, <<45208>>, <<45796>> >>, << 2, 2, 1 >>) /\ arg.k = 3  \* "가" "나" "다"
                  => ret[1] = << <<44032>>, <<45208>>, <<45796>> >>)  \* "가" "나" "다"

IsAscending(r) == \A i, j \in 1..Len(r) : i < j => LexLess(r[i], r[j])

\* C4 (as amended): running top_keywords with the same k on its own output joined
\* with spaces returns the same set of keywords in ascending lexicographic
\* order; it is the same sequence exactly when the first output was already in
\* ascending lexicographic order.
C4_RerunSortsAscending ==
    pc = "done" =>
        /\ Len(ret[2]) = Len(ret[1])
        /\ Range(ret[2]) = Range(ret[1])
        /\ IsAscending(ret[2])
        /\ (ret[2] = ret[1] <=> IsAscending(ret[1]))

\* C4 witness: a rerun that reorders the keywords of the first run
C4_Witness == pc = "done" /\ Len(ret[1]) >= 2 /\ ret[2] # ret[1] /\ Range(ret[2]) = Range(ret[1])

\* C4 (as stated): the rerun returns the same sequence in the same order
C4_Original == pc = "done" => ret[2] = ret[1]


----------------------------------------------------------------------------
(* engagement_metrics and pacing_analysis applied to bounded inputs *)

MaxViews == 3
MaxLikes == 3
MaxSeconds == 3

MetricScripts == { <<>>, Str("  "), Str("a b c"), <<54616, 45208, 44, 32, 46168, 33, 32, 49483, 32, 45367, 32, 51, 48516>> }  \* "하나, 둘! 셋 넷 3분"

InitMetrics ==
    /\ AppInit
    /\ pc = "ready"
    /\ \E v \in 0..MaxViews, l \in (-MaxLikes)..MaxLikes, s \in 0..MaxSeconds,
          x \in MetricScripts :
           arg = [views |-> v, likes |-> l, seconds |-> s, script_text |-> x]
    /\ ret = None

CallEngagementMetrics ==
    /\ pc = "ready"
    /\ ret' = << engagement_metrics(arg.views, arg.likes) >>
    /\ pc' = "engaged"
    /\ UNCHANGED << arg, appvars >>

CallPacingAnalysis ==
    /\ pc = "engaged"
    /\ ret' = ret \o << pacing_analysis(arg.seconds, arg.script_text) >>
    /\ pc' = "done"
    /\ UNCHANGED << arg, appvars >>

NextMetrics == CallEngagementMetrics \/ CallPacingAnalysis

SpecMetrics == InitMetrics /\ [][NextMetrics]_vars

\* C1: no division of the engine faults; with views = 0 the engagement rate is 0
\* and the tier is the low one for every likes value, and with seconds = 0 the
\* wpm is 0 for every script text.
C1_ZeroDenominatorDefaults ==
    /\ pc \in {"engaged", "done"} =>
           /\ ret[1] # ZeroDivisionError
           /\ arg.views = 0 => ret[1].engagement_rate = 0 /\ ret[1].tier = TIER_LOW
    /\ pc = "done" =>
           /\ ret[2] # ZeroDivisionError
           /\ arg.seconds = 0 => ret[2].wpm = 0

\* C1 witness: views = 0 with likes > 0 and seconds = 0 with a script of several
\* words, both analysed
C1_Witness ==
    /\ pc = "done"
    /\ arg.views = 0 /\ arg.likes > 0
    /\ arg.seconds = 0 /\ ret[2].words > 0
    /\ ret[1].engagement_rate = 0 /\ ret[1].tier = TIER_LOW
    /\ ret[2].wpm = 0

----------------------------------------------------------------------------
(* detect_hook applied to pairs of long texts *)

MaxLead == 2
HookSlack == 2

HookTails == { <<>>, Str("x"), <<44845>>, <<52649, 44201>>, <<32, 49, 48, 48516, 32>>, <<118, 115, 10>> }  \* "꼭" "충격" " 10분 " "vs\n"

\* lead spaces, n filler characters, then the tail
HookText(lead, n, tail) == Repeat(32, lead) \o Repeat(120, n) \o tail

InitHook ==
    /\ AppInit
    /\ pc = "ready"
    /\ \E l1 \in 0..MaxLead, l2 \in 0..MaxLead,
          n \in (HOOK_WINDOW - HookSlack)..(HOOK_WINDOW + HookSlack),
          t1 \in HookTails, t2 \in HookTails :
           arg = << HookText(l1, n, t1), HookText(l2, n, t2) >>
    /\ ret = None

\* detect_hook on the first text, then on the second
CallDetectHook ==
    /\ pc \in {"ready", "first"}
    /\ ret' = ret \o << detect_hook(arg[Len(ret) + 1]) >>
    /\ pc' = IF pc = "ready" THEN "first" ELSE "done"
    /\ UNCHANGED << arg, appvars >>

NextHook == CallDetectHook

SpecHook == InitHook /\ [][NextHook]_vars

SameHook == ret[1].score_5 = ret[2].score_5 /\ ret[1].signals = ret[2].signals

\* C2 (as amended): detect_hook returns a score in 0..5 that depends only on the
\* first 400 characters of the script text after its leading and trailing
\* whitespace is trimmed: two texts whose trimmed forms agree on their first
\* 400 characters get the same score and the same five signals.
C2_HookWindowOfTrimmed ==
    pc = "done" =>
        /\ ret[1].score_5 \in 0..5
        /\ Len(ret[1].signals) = 5
        /\ ret[1].score_5 = CountTrue([i \in 1..5 |-> ret[1].signals[i][2]])
        /\ (Slice(Strip(arg[1]), HOOK_WINDOW) = Slice(Strip(arg[2]), HOOK_WINDOW) => SameHook)

\* C2 witness: two texts that agree on the window of their trimmed forms and
\* differ in a keyword after it, which does not register
C2_Witness ==
    /\ pc = "done"
    /\ Slice(Strip(arg[1]), HOOK_WINDOW) = Slice(Strip(arg[2]), HOOK_WINDOW)
    /\ In(<<52649, 44201>>, arg[1]) /\ ~In(<<52649, 44201>>, arg[2])  \* "충격" "충격"
    /\ ret[1].score_5 = 0 /\ SameHook

\* C2 (as stated): two texts that agree on their first 400 characters get the
\* same score and signals
C2_Original ==
    pc = "done" =>
        /\ ret[1].score_5 \in 0..5
        /\ (Slice(arg[1], HOOK_WINDOW) = Slice(arg[2], HOOK_WINDOW) => SameHook)

----------------------------------------------------------------------------
(* analyze_reference applied to bounded input records *)

AnalyzeViews == {0, 100, 201, 2001}
AnalyzeLikes == {0, 2, 5, 100}
AnalyzeSeconds == {0, 1, 2, 60}
AnalyzeTitles == { <<52488, 48372, 46020, 32, 46104, 45716, 32, 49, 48, 48516, 32, 51221, 47532, 32, 47336, 54004>>, <<52649, 44201, 32, 49892, 54744, 32, 44032, 51060, 46300>>, Str("hello"), <<51068, 32, 51452, 32, 47336, 54004>> }  \* "초보도 되는 10분 정리 루틴" "충격 실험 가이드" "일 주 루틴"
AnalyzeThumbs == { <<>>, <<50620, 44404, 32, 53364, 47196, 51592, 50629, 32, 118, 115, 32, 49707, 51088, 32, 45348, 50728>> }  \* "얼굴 클로즈업 vs 숫자 네온"
AnalyzeScripts ==
    { <<50668, 47084, 48516, 32, 52649, 44201, 32, 54616, 51648, 47564, 32, 51, 48516, 32, 51221, 47532>>, Str("a b c d"), <<35, 32, 65, 49, 10, 49, 46, 32, 103, 111, 10, 52309, 53552, 32, 50, 32, 44845, 32, 52649, 44201, 32, 118, 115>> }  \* "여러분 충격 하지만 3분 정리" "# A1\n1. go\n챕터 2 꼭 충격 vs"

AnalyzeInputs ==
    [ views : AnalyzeViews, likes : AnalyzeLikes, seconds : AnalyzeSeconds,
      title : AnalyzeTitles, thumbnail : AnalyzeThumbs, script_text : AnalyzeScripts ]

InitAnalyze ==
    /\ AppInit
    /\ pc = "ready"
    /\ arg \in AnalyzeInputs
    /\ ret = None

CallAnalyzeReference ==
    /\ pc = "ready"
    /\ ret' = analyze_reference(arg)
    /\ pc' = "done"
    /\ UNCHANGED << arg, appvars >>

NextAnalyze == CallAnalyzeReference

SpecAnalyze == InitAnalyze /\ [][NextAnalyze]_vars

Has(seq, x) == \E i \in 1..Len(seq) : seq[i] = x

Dimensions == {"hook", "title", "thumbnail", "engagement", "pacing"}

DimStrength ==
    [ hook |-> STRENGTH_HOOK, title |-> STRENGTH_TITLE, thumbnail |-> STRENGTH_THUMB,
      engagement |-> STRENGTH_ENGAGEMENT, pacing |-> STRENGTH_PACE ]

DimRisk ==
    [ hook |-> RISK_HOOK, title |-> RISK_TITLE, thumbnail |-> RISK_THUMB,
      engagement |-> RISK_ENGAGEMENT, pacing |-> RISK_PACE ]

\* << the report states the strength of dimension d, it states the risk of d >>
Statements(report, d) == << Has(report.strengths, DimStrength[d]), Has(report.risks, DimRisk[d]) >>

\* C9 (as amended): a report may contain neither or either statement about a
\* dimension but never both: no report states the strength and the risk of the
\* same dimension, and for the hook and the thumbnail it states exactly one.
C9_NeverBothStatements ==
    pc = "done" =>
        /\ \A d \in Dimensions : Statements(ret, d) # << TRUE, TRUE >>
        /\ \A d \in {"hook", "thumbnail"} : Statements(ret, d) # << FALSE, FALSE >>

\* C9 witness: one report with no statement about the title, the strength alone
\* about engagement and the risk alone about pacing
C9_Witness ==
    /\ pc = "done"
    /\ Statements(ret, "title") = << FALSE, FALSE >>
    /\ Statements(ret, "engagement") = << TRUE, FALSE >>
    /\ Statements(ret, "pacing") = << FALSE, TRUE >>

\* C9 (as stated): over the inputs, each of the combinations no statement,
\* strength only, risk only, strength and risk together occurs for some dimension
C9_Original ==
    pc = "done" =>
        \A combo \in BOOLEAN \X BOOLEAN :
            \E ref \in AnalyzeInputs : \E d \in Dimensions :
                Statements(analyze_reference(ref), d) = combo

\* C11: the engagement tier and the engagement statements of one report agree:
\* the report states the high-engagement strength exactly when its tier is high
\* (likes/views >= 0.05) and the low-engagement risk exactly when its tier is
\* low (likes/views < 0.01, or no views).
C11_TierAgreesWithStatements ==
    pc = "done" =>
        LET tier == ret.summary.engagement.tier
        IN /\ (tier = TIER_HIGH <=> arg.views > 0 /\ 100 * arg.likes >= 5 * arg.views)
           /\ (tier = TIER_LOW <=> arg.views = 0 \/ 100 * arg.likes < arg.views)
           /\ (Has(ret.strengths, STRENGTH_ENGAGEMENT) <=> tier = TIER_HIGH)
           /\ (Has(ret.risks, RISK_ENGAGEMENT) <=> tier = TIER_LOW)


----------------------------------------------------------------------------
(* generate_ideas applied to bounded inputs *)

MaxN == 12

IdeaRefs ==
    [ title : { <<52488, 48372, 46020, 32, 46104, 45716, 32, 49, 48, 48516, 32, 51221, 47532, 32, 47336, 54004>>, Str("AB ab Cd"), Str("a") },  \* "초보도 되는 10분 정리 루틴"
      script_text : { <<47336, 54004, 32, 51221, 47532, 44, 32, 47336, 54004, 33, 32, 52488, 48372, 46020, 32, 54620, 45796>>, Str("x"), <<50689, 49345, 32, 44536, 47532, 44256, 32, 51221, 47532, 32, 51221, 47532>> } ]  \* "루틴 정리, 루틴! 초보도 한다" "영상 그리고 정리 정리"

InitIdeas ==
    /\ AppInit
    /\ pc = "ready"
    /\ \E r \in IdeaRefs, n \in 0..MaxN : arg = [ref |-> r, n |-> n]
    /\ ret = None

CallGenerateIdeas ==
    /\ pc = "ready"
    /\ ret' = generate_ideas(arg.ref, arg.n)
    /\ pc' = "done"
    /\ UNCHANGED << arg, appvars >>

NextIdeas == CallGenerateIdeas

SpecIdeas == InitIdeas /\ [][NextIdeas]_vars

StartsWith(s, pre) == Len(pre) <= Len(s) /\ SubSeq(s, 1, Len(pre)) = pre
EndsWith(s, suf) == Len(suf) <= Len(s) /\ SubSeq(s, Len(s) - Len(suf) + 1, Len(s)) = suf

\* idea (0-based index i) is built from angle i mod 10, differentiator i mod 10
\* and phrasing variant i mod 4
IdeaBuiltFrom(idea, i) ==
    LET angle == BASE_ANGLES[(i % 10) + 1]
        diff == DIFF_VAULT[(i % 10) + 1]
        variant == VARIANTS[(i % 4) + 1]
    IN /\ StartsWith(idea.idea_title, Str("[") \o angle[1] \o Str("] "))
       /\ EndsWith(idea.idea_title, <<47484, 32>> \o variant \o <<32, 54644, 48420, 45796>>)  \* "를 " " 해봤다"
       /\ idea.concept = angle[2] \o <<32, 43, 32, 52264, 48324, 54252, 51064, 53944, 58, 32>> \o diff  \* " + 차별포인트: "
       /\ EndsWith(idea.logline, angle[1] \o <<32, 53668, 51004, 47196, 32, 51204, 44060, 46, 32>> \o diff \o <<32, 51201, 50857, 46>>)  \* " 톤으로 전개. " " 적용."

\* C5: generate_ideas returns exactly n ideas in index order, idea i built from
\* BASE_ANGLES[i mod 10], DIFF_VAULT[i mod 10] and the phrasing variant i mod 4,
\* its title tagged by the angle's name; with n = 10 the titles are tagged by
\* the ten angle names in vault order.
C5_IdeasCycleVaults ==
    pc = "done" =>
        /\ Len(ret) = arg.n
        /\ \A i \in 0..(arg.n - 1) : IdeaBuiltFrom(ret[i + 1], i)
        /\ arg.n = 10 =>
               \A j \in 1..10 : StartsWith(ret[j].idea_title, Str("[") \o BASE_ANGLES[j][1] \o Str("]"))

\* C5 witness: more than ten ideas generated, the eleventh tagged by the first
\* angle again and phrased by the third variant
C5_Witness ==
    /\ pc = "done"
    /\ arg.n > 10 /\ Len(ret) = arg.n
    /\ StartsWith(ret[11].idea_title, Str("[") \o BASE_ANGLES[1][1] \o Str("] "))
    /\ EndsWith(ret[11].idea_title, <<47484, 32>> \o VARIANTS[3] \o <<32, 54644, 48420, 45796>>)  \* "를 " " 해봤다"

----------------------------------------------------------------------------
(* generate_script, called directly and through build_script's chapter parsing *)

ScriptIdeas ==
    { generate_ideas([title |-> <<52488, 48372, 46020, 32, 46104, 45716, 32, 49, 48, 48516, 32, 51221, 47532, 32, 47336, 54004>>, script_text |-> Str("x")], 10)[i] :  \* "초보도 되는 10분 정리 루틴"
          i \in {1, 2, 10} }

ScriptSpeakers == { <<51204, 47928, 44032>>, <<32, 52828, 44396, 32>>, <<>>, <<45231, 49440, 51060>> }  \* "전문가" " 친구 " "낯선이"
ScriptStyles == { <<49828, 53916, 46356, 50724, 32, 53668>>, Str("  ") }  \* "스튜디오 톤"
ScriptChapterTexts ==
    { <<>>, Str("   "), Str(" , ,"), DEFAULT_CHAPTERS, <<51064, 53944, 47196, 44, 32, 52968, 53581, 44, 32, 54028, 53944, 32, 50, 44, 51221, 47532, 32, 44, 67, 84, 65, 44, 32, 45149>> }  \* "인트로, 컨텍, 파트 2,정리 ,CTA, 끝"

InitScript ==
    /\ AppInit
    /\ pc = "ready"
    /\ \E i \in ScriptIdeas, s \in ScriptSpeakers, f \in ScriptStyles, c \in ScriptChapterTexts :
           arg = [idea |-> i, speaker |-> s, style |-> f, chapters |-> c]
    /\ ret = None

\* generate_script on the chapter list as parsed
CallGenerateScript ==
    /\ pc = "ready"
    /\ ret' = << generate_script(arg.idea, arg.speaker, ParseChapters(arg.chapters), arg.style) >>
    /\ pc' = "direct"
    /\ UNCHANGED << arg, appvars >>

\* the script build_script assembles for the same texts
CallBuildScriptText ==
    /\ pc = "direct"
    /\ ret' = ret \o << build_script_text(arg.idea, arg.speaker, arg.style, arg.chapters) >>
    /\ pc' = "done"
    /\ UNCHANGED << arg, appvars >>

NextScript == CallGenerateScript \/ CallBuildScriptText

SpecScript == InitScript /\ [][NextScript]_vars

\* the first position of sub in s, 0 if none
IndexOf(sub, s) ==
    IF In(sub, s)
    THEN CHOOSE i \in 1..Len(s) : StartsAt(s, i, sub) /\ \A j \in 1..(i - 1) : ~StartsAt(s, j, sub)
    ELSE 0

DefaultOutline ==
    << <<72, 111, 111, 107, 40, 47928, 51228, 32, 51228, 44592, 47, 50557, 49549, 41>>, <<52968, 53581, 49828, 53944, 40, 45824, 49345, 47, 51312, 44148, 32, 47749, 49884, 41>>, <<48376, 32, 49892, 54744, 47, 51204, 44060, 40, 54028, 53944, 49, 41>>,  \* "Hook(문제 제기/약속)" "컨텍스트(대상/조건 명시)" "본 실험/전개(파트1)"
       <<48376, 32, 49892, 54744, 47, 51204, 44060, 40, 54028, 53944, 50, 41>>, <<44208, 44284, 47, 44368, 54984>>, <<67, 84, 65, 40, 44396, 46021, 47, 45843, 44544, 32, 50976, 46020, 41>> >>  \* "본 실험/전개(파트2)" "결과/교훈" "CTA(구독/댓글 유도)"

ChapterHeader(idx, ch) == <<10, 35, 35, 35, 32, 52309, 53552, 32>> \o Digits(idx) \o Str(". ") \o ch \o << 10 >>  \* "\n### 챕터 "

\* the text holds the six default chapters, numbered 1..6, in their order
HasDefaultOutline(text) ==
    /\ \A i \in 1..6 : In(ChapterHeader(i, DefaultOutline[i]), text)
    /\ \A i \in 1..5 : IndexOf(ChapterHeader(i, DefaultOutline[i]), text)
                         < IndexOf(ChapterHeader(i + 1, DefaultOutline[i + 1]), text)
    /\ ~In(<<35, 35, 35, 32, 52309, 53552, 32, 55>>, text)  \* "### 챕터 7"

\* C6 (as amended): the fallback is build_script's: when the chapter field
\* parses to an empty list, the script build_script assembles contains the six
\* default chapters in their fixed order, while generate_script given the empty
\* list itself returns the header block alone.
C6_FallbackInBuildScript ==
    /\ pc = "done" /\ ParseChapters(arg.chapters) = <<>> => HasDefaultOutline(ret[2])
    /\ pc \in {"direct", "done"} /\ ParseChapters(arg.chapters) = <<>> =>
           /\ ~In(<<35, 35, 35, 32, 52309, 53552>>, ret[1])  \* "### 챕터"
           /\ EndsWith(ret[1], <<35, 35, 32, 47196, 44536, 46972, 51064, 58, 32>> \o arg.idea.logline \o << 10 >>)  \* "## 로그라인: "

\* C6 witness: a chapter field of separators only, assembled both ways
C6_Witness ==
    /\ pc = "done"
    /\ arg.chapters # <<>> /\ ParseChapters(arg.chapters) = <<>>
    /\ HasDefaultOutline(ret[2])
    /\ ~In(<<35, 35, 35, 32, 52309, 53552>>, ret[1])  \* "### 챕터"

\* C6 (as stated): generate_script given an empty chapter list returns a text with
\* the six default chapters
C6_Original ==
    pc \in {"direct", "done"} /\ ParseChapters(arg.chapters) = <<>> => HasDefaultOutline(ret[1])

====
